---- MODULE Spec2Model ----
(***************************************************************************)
(* Model of the processing engine of name-preprocessing:                   *)
(*   processing/node.py         Node.run, ProcessingContext                *)
(*   processing/orchestrate.py  Orchestrator, Selector                     *)
(*   processing/dataset.py      Port, Keys, Index                          *)
(*   processing/transform.py    ThroughTransform, TrailTransform,          *)
(*                              DenormaliseTransform, ClusterTransform,    *)
(*                              LookupTransform, ParentLookupTransform,    *)
(*                              VariantTransform                           *)
(*   afd/parent.py              ParentTransform                            *)
(*   dwc/transform.py           DwcTaxonReidentify, DwcTaxonValidate       *)
(*                                                                         *)
(* Spec and DumpSpec: one behaviour is one call orchestrator.run(context)  *)
(* on a node graph that Init draws from a bounded family of graphs.  A     *)
(* dataset is represented by its number of rows; a port by its id string,  *)
(* which Node.label_ports makes unique for the nodes of these graphs.      *)
(*                                                                         *)
(* ContextSpec: a context and Port objects with ids of their own.          *)
(* KeysSpec, IndexSpec, TrailSpec, ParentSpec, ReidentifySpec,             *)
(* PredicateTrailSpec, DenormaliseSpec, ClusterSpec, ValidateSpec,         *)
(* SelectorSpec, LookupSpec, ParentLookupSpec, VariantSpec: one            *)
(* behaviour is one execution of the operation on inputs that the initial  *)
(* predicate draws from bounded sets; records carry small integers as      *)
(* identifiers and 0 for None.                                             *)
(***************************************************************************)
EXTENDS Integers, Sequences, FiniteSets, TLC

\* ---- bounds of the model ----
\* nodes in the graph
MaxNodes == 2
\* settings that differ from the empty configuration, together: input ports,
\* predecessors, no_errors=False and fail_on_exception=True flags of the
\* nodes, and the dangling_sink_class of the context
MaxLinks == 2
\* rows a node puts on its error port
MaxRows == 1
\* Port objects handed to a context
MaxPorts == 2
\* calls of ProcessingContext.save on a context and its subcontexts
MaxSaves == 2
\* records of a reference table
MaxIds == 3
\* non-null parent and accepted pointers in a reference table
MaxRefLinks == 2
\* rows of the dataset a transform reads from its input port
MaxData == 2
\* non-null parent and accepted pointers in a reference table that may hold
\* cycles
MaxTrailLinks == 3
\* signatures that ClusterTransform groups rows by
MaxSignatures == 2
\* rows of the lookup table of a ParentLookupTransform
MaxLookup == 1
\* generating functions of a VariantTransform
MaxTransforms == 2
\* characters of the text in a field
MaxChars == 3
\* rows of the dataset that DenormaliseTransform reads
MaxSplitRows == 1

VARIABLES
    nodes,                \* Orchestrator.nodes: the node list (grows with generated sinks)
    orch_completed,       \* Orchestrator.completed: nodes declared as already run elsewhere
    dangling_sink_class,  \* ProcessingContext.dangling_sink_class is not None
    dump,                 \* ProcessingContext.dump
    root_datasets,        \* datasets of the context handed to Orchestrator.run
    datasets,             \* datasets of the subcontext Orchestrator.execute works in
    ctx_completed,        \* ProcessingContext.completed of that subcontext
    done,                 \* local list `done` of Orchestrator.execute
    ready,                \* local list `ready` of the current round
    idx,                  \* position of the for loop in `ready`
    completed,            \* local flag `completed` of Orchestrator.execute
    halted,               \* execute took the "Halting on errors" return
    rounds,               \* number of passes through the while loop body
    pc,                   \* position of Orchestrator.run
    exc,                  \* exception that left Orchestrator.run ("" for none)
    invalid,              \* the list `invalid` computed at the end of execute
    runs,                 \* finished Node.run calls, in order (see RunRecord)
    port_objects,         \* the Port objects in use: object handle -> Port.id
    saved,                \* the calls of ProcessingContext.save, in order
    transform,            \* the attributes of the transform (or Keys, Index) being executed
    data,                 \* rows of the dataset acquired for the input port
    reference,            \* rows of the dataset acquired for the second input port
    result,               \* rows of the output dataset under construction
    errors,               \* rows of the error dataset under construction
    counts,               \* Node.counts of the transform
    locals,               \* local variables of the execute in progress
    raised                \* the exception that left the operation ("" for none)

\* the state of an orchestrator run
ovars == <<nodes, orch_completed, dangling_sink_class, dump, root_datasets, datasets,
           ctx_completed, done, ready, idx, completed, halted, rounds, pc, exc,
           invalid, runs>>

\* the state of a context with its ports and of one transform's execute
dvars == <<port_objects, saved, transform, data, reference, result, errors, counts, locals, raised>>

vars == <<nodes, orch_completed, dangling_sink_class, dump, root_datasets, datasets,
          ctx_completed, done, ready, idx, completed, halted, rounds, pc, exc,
          invalid, runs,
          port_objects, saved, transform, data, reference, result, errors, counts, locals, raised>>

\* ---- helpers ----
Range(s) == {s[i] : i \in 1..Len(s)}

RECURSIVE KSubsets(_, _)
KSubsets(S, k) ==
    IF k = 0 THEN {{}}
    ELSE LET prev == KSubsets(S, k - 1)
         IN  prev \cup {s \cup {a} : s \in prev, a \in S}

RECURSIVE Concat(_)
Concat(ss) == IF ss = <<>> THEN <<>> ELSE Head(ss) \o Concat(Tail(ss))

\* ---- nodes and ports (node.py) ----
OrchestratorId == "orchestrator"
ExternalId == "ext"

NodeId(i) == ToString(i)

\* Node.label_ports: port.id = self.id + "." + name
PortId(id, name) == id \o "." \o name

\* A source or transform of the graph: one output port and one error port.
GraphNode(i, ins, ps, ne, foe) ==
    [id |-> NodeId(i),
     inputs |-> ins,
     outputs |-> << <<"output", PortId(NodeId(i), "output")>> >>,
     errors |-> << <<"error", PortId(NodeId(i), "error")>> >>,
     predecessors |-> ps,
     no_errors |-> ne,
     fail_on_exception |-> foe,
     generated |-> FALSE]

\* A node run elsewhere, named in Orchestrator.completed.
ExternalNode ==
    [id |-> ExternalId,
     inputs |-> {},
     outputs |-> << <<"output", PortId(ExternalId, "output")>> >>,
     errors |-> <<>>,
     predecessors |-> {},
     no_errors |-> TRUE,
     fail_on_exception |-> FALSE,
     generated |-> FALSE]

\* Sink.create_in_context(id, port, context, tags={'generated': True}, no_errors=False)
SinkNode(id, port) ==
    [id |-> id,
     inputs |-> {port},
     outputs |-> <<>>,
     errors |-> <<>>,
     predecessors |-> {},
     no_errors |-> FALSE,
     fail_on_exception |-> FALSE,
     generated |-> TRUE]

\* node.outputs().values(), node.errors().values()
Values(items) == {items[i][2] : i \in 1..Len(items)}

\* ---- ProcessingContext (node.py) ----
\* ProcessingContext.available, from the orchestrator's subcontext up to its parent
Available(ds, rds, port) == port \in DOMAIN ds \/ port \in DOMAIN rds

\* ProcessingContext.acquire (only used where Available holds)
Acquire(ds, rds, port) == IF port \in DOMAIN ds THEN ds[port] ELSE rds[port]

\* ProcessingContext.has_data
HasData(ds, rds, port) == Available(ds, rds, port) /\ Acquire(ds, rds, port) # 0

\* ProcessingContext.has_errors
HasErrors(ds, rds, node) ==
    \/ \E p \in Values(node.errors) : p \in DOMAIN ds /\ ds[p] # 0
    \/ \E p \in Values(node.errors) : p \in DOMAIN rds /\ rds[p] # 0

\* ProcessingContext.merge: the subcontext's datasets overwrite this context's
Merge(ds, sub) == [p \in DOMAIN ds \cup DOMAIN sub |-> IF p \in DOMAIN sub THEN sub[p] ELSE ds[p]]

\* is_executable that forgets the predecessors
IsExecutable_InputsOnly(node, cc, ds, rds) ==
    \A port \in node.inputs : Available(ds, rds, port)

\* Node.is_executable
IsExecutable(node, cc, ds, rds) ==
    IF ~(\A p \in node.predecessors : p \in cc) THEN FALSE
    ELSE \A port \in node.inputs : Available(ds, rds, port)

\* a run that forgets the rollback when execute raises
RunTrace_NoRollback(beginRaises, executeRaises, commitRaises) ==
    IF beginRaises THEN <<"begin">>
    ELSE IF executeRaises THEN <<"begin", "execute">>
    ELSE IF commitRaises THEN <<"begin", "execute", "commit", "rollback">>
    ELSE <<"begin", "execute", "commit">>

\* ---- Node.run (node.py) ----
\* The lifecycle calls of one Node.run, from where an exception is raised.
RunTrace(beginRaises, executeRaises, commitRaises) ==
    IF beginRaises THEN <<"begin">>
    ELSE IF executeRaises THEN <<"begin", "execute", "rollback">>
    ELSE IF commitRaises THEN <<"begin", "execute", "commit", "rollback">>
    ELSE <<"begin", "execute", "commit">>

\* Node.run re-raises whatever begin, execute or commit raised
RunRaises(beginRaises, executeRaises, commitRaises) ==
    beginRaises \/ executeRaises \/ commitRaises

\* an execute that turns every row-level exception into an error record
ThroughExecute_CatchAll(node, accepted, exceptions) ==
    [executeRaises |-> FALSE, commitRaises |-> FALSE,
     out |-> accepted, err |-> exceptions, exceptions |-> exceptions]

\* ThroughTransform.execute on input rows of which `accepted` are composed
\* and `exceptions` make compose raise: with fail_on_exception the first
\* exception is re-raised before anything is saved, otherwise each one
\* becomes an error record.
ThroughExecute(node, accepted, exceptions) ==
    IF exceptions > 0 /\ node.fail_on_exception
    THEN [executeRaises |-> TRUE, commitRaises |-> FALSE,
          out |-> 0, err |-> 0, exceptions |-> 1]
    ELSE [executeRaises |-> FALSE, commitRaises |-> FALSE,
          out |-> accepted, err |-> exceptions, exceptions |-> exceptions]

\* What one execution of a graph node can do: the row loop of execute over
\* its input (accepted rows, rows that raise), an exception outside the row
\* loop, or, with context.dump set, a failing dump of the outputs in commit.
Outcomes(node, dmp) ==
    {ThroughExecute(node, a, e) : a \in 0..1, e \in 0..MaxRows}
    \cup {[executeRaises |-> TRUE, commitRaises |-> FALSE,
           out |-> 0, err |-> 0, exceptions |-> 0]}
    \cup (IF dmp /\ node.outputs # <<>>
          THEN {[executeRaises |-> FALSE, commitRaises |-> TRUE,
                 out |-> 0, err |-> 0, exceptions |-> 0]}
          ELSE {})

\* The datasets a node saved into the subcontext made by Node.run
Saved(node, o) ==
    [p \in Values(node.outputs) \cup Values(node.errors) |->
        IF p \in Values(node.outputs) THEN o.out ELSE o.err]

\* a run that merges what the node saved whether or not it committed
AfterRun_MergeAlways(ds, node, o) == Merge(ds, Saved(node, o))

\* The dataset store of the context handed to Node.run, after the run: the
\* node saves into a subcontext, which commit merges into its parent after
\* the dump; a run that raised leaves the parent alone.
AfterRun(ds, node, o) ==
    IF o.executeRaises \/ o.commitRaises THEN ds ELSE Merge(ds, Saved(node, o))

\* ---- Orchestrator (orchestrate.py) ----
\* Orchestrator.source_node
SourceNode(ns, cs, port) ==
    \E n \in Range(ns) \cup Range(cs) : port \in Values(n.outputs) \cup Values(n.errors)

\* dangling_nodes that knows output ports only
DanglingNodes_OutputsOnly(ns, cs) ==
    LET seen == UNION {Values(n.outputs) : n \in Range(cs) \cup Range(ns)}
    IN  SelectSeq(ns, LAMBDA n : \E port \in n.inputs : port \notin seen)

\* Orchestrator.dangling_nodes: the nodes with an input no node is the source of
DanglingNodes(ns, cs) ==
    LET seen == UNION {Values(n.outputs) : n \in Range(cs)}
                \cup UNION {Values(n.outputs) \cup Values(n.errors) : n \in Range(ns)}
    IN  SelectSeq(ns, LAMBDA n : \E port \in n.inputs :
                                    port \notin seen /\ ~SourceNode(ns, cs, port))

\* create_dangling_nodes that asks for a dataset instead of rows
CreateDanglingNodes_Available(node, ports, ds, rds, inputs) ==
    LET keep(item) == item[2] \notin inputs /\ Available(ds, rds, item[2])
        kept == SelectSeq(ports, keep)
    IN  [i \in 1..Len(kept) |-> SinkNode(node.id \o "_" \o kept[i][1], kept[i][2])]

\* Orchestrator.create_dangling_nodes
CreateDanglingNodes(node, ports, ds, rds, inputs) ==
    LET keep(item) == item[2] \notin inputs /\ HasData(ds, rds, item[2])
        kept == SelectSeq(ports, keep)
    IN  [i \in 1..Len(kept) |-> SinkNode(node.id \o "_" \o kept[i][1], kept[i][2])]

\* execute_dangling_ports that does not collect the inputs of the nodes
DanglingSinks_NoInputs(ns, dsc, ds, rds) ==
    IF ~dsc THEN <<>>
    ELSE Concat([i \in 1..Len(ns) |->
                    CreateDanglingNodes(ns[i], ns[i].outputs, ds, rds, {})
                    \o CreateDanglingNodes(ns[i], ns[i].errors, ds, rds, {})])

\* Orchestrator.execute_dangling_ports: the generated sinks, in creation order
DanglingSinks(ns, dsc, ds, rds) ==
    IF ~dsc THEN <<>>
    ELSE LET inputs == UNION {n.inputs : n \in Range(ns)}
         IN  Concat([i \in 1..Len(ns) |->
                        CreateDanglingNodes(ns[i], ns[i].outputs, ds, rds, inputs)
                        \o CreateDanglingNodes(ns[i], ns[i].errors, ds, rds, inputs)])

\* a ready list that does not leave out the nodes already done
Ready_WithDone(ns, dn, cc, ds, rds) ==
    SelectSeq(ns, LAMBDA n : IsExecutable(n, cc, ds, rds))

\* ready = [node for node in self.nodes if node.is_executable(context) and node not in done]
Ready(ns, dn, cc, ds, rds) ==
    SelectSeq(ns, LAMBDA n : IsExecutable(n, cc, ds, rds) /\ n.id \notin {d.id : d \in Range(dn)})

\* a halt test with the no_errors flag inverted
Halts_Inverted(node, ds, rds) == ~node.no_errors /\ HasErrors(ds, rds, node)

\* if node.no_errors and context.has_errors(node)
Halts(node, ds, rds) == node.no_errors /\ HasErrors(ds, rds, node)

\* invalid = [node.id for node in self.nodes if not node.is_executable(context)]
Invalid(ns, cc, ds, rds) ==
    LET bad == SelectSeq(ns, LAMBDA n : ~IsExecutable(n, cc, ds, rds))
    IN  [i \in 1..Len(bad) |-> bad[i].id]

\* ---- the graphs of the model ----
ExtPort == PortId(ExternalId, "output")

GraphPorts(n) ==
    {PortId(NodeId(i), "output") : i \in 1..n}
    \cup {PortId(NodeId(i), "error") : i \in 1..n}
    \cup {ExtPort}

\* a link gives a node an input port or a predecessor, clears its no_errors
\* flag (which defaults to True), sets its fail_on_exception flag (which
\* defaults to False) or gives the context a dangling_sink_class (which
\* defaults to None)
Links(n) ==
    {<<"input", i, p>> : i \in 1..n, p \in GraphPorts(n)}
    \cup {<<"predecessor", x[1], NodeId(x[2])>> :
                x \in {y \in (1..n) \X (1..n) : y[1] # y[2]}}
    \cup {<<"no_errors", i, "False">> : i \in 1..n}
    \cup {<<"fail_on_exception", i, "True">> : i \in 1..n}
    \cup {<<"dangling_sink_class", 0, "NullSink">>}

Graph(n, links) ==
    [i \in 1..n |->
        GraphNode(i,
                  {l[3] : l \in {k \in links : k[1] = "input" /\ k[2] = i}},
                  {l[3] : l \in {k \in links : k[1] = "predecessor" /\ k[2] = i}},
                  <<"no_errors", i, "False">> \notin links,
                  <<"fail_on_exception", i, "True">> \in links)]

UsesExt(ns) == \E n \in Range(ns) : ExtPort \in n.inputs

\* no transform is being executed on its own
NoTransform ==
    /\ port_objects = <<>>
    /\ saved = <<>>
    /\ transform = <<>>
    /\ data = <<>>
    /\ reference = <<>>
    /\ result = <<>>
    /\ errors = <<>>
    /\ counts = <<>>
    /\ locals = <<>>
    /\ raised = ""

InitWith(dmp) ==
    /\ NoTransform
    /\ \E n \in 0..MaxNodes : \E links \in KSubsets(Links(n), MaxLinks) :
          /\ nodes = Graph(n, links)
          /\ dangling_sink_class = (<<"dangling_sink_class", 0, "NullSink">> \in links)
    /\ orch_completed \in IF UsesExt(nodes) THEN {<<>>, <<ExternalNode>>} ELSE {<<>>}
    /\ root_datasets \in IF UsesExt(nodes)
                         THEN {<<>>} \cup {[p \in {ExtPort} |-> r] : r \in 0..1}
                         ELSE {<<>>}
    /\ dump = dmp
    /\ datasets = <<>>
    /\ ctx_completed = {}
    /\ done = <<>>
    /\ ready = <<>>
    /\ idx = 1
    /\ completed = FALSE
    /\ halted = FALSE
    /\ rounds = 0
    /\ pc = "run"
    /\ exc = ""
    /\ invalid = <<>>
    /\ runs = <<>>

\* ProcessingContext.dump defaults to False
Init == InitWith(FALSE)

\* the same runs with the "dump every node's output" flag set
InitDump == InitWith(TRUE)

\* ---- Orchestrator.run: Node.run with Orchestrator.begin and Orchestrator.execute ----
RunRecord(id, gen, exceptions, beginRaises, executeRaises, commitRaises) ==
    [id |-> id, generated |-> gen, exceptions |-> exceptions,
     failed |-> IF beginRaises THEN "begin"
                ELSE IF executeRaises THEN "execute"
                ELSE IF commitRaises THEN "commit" ELSE "",
     trace |-> RunTrace(beginRaises, executeRaises, commitRaises),
     raised |-> RunRaises(beginRaises, executeRaises, commitRaises)]

\* for node in dangling: node.run(context); a generated sink only reads its input
SinkRuns(sinks) ==
    [i \in 1..Len(sinks) |-> RunRecord(sinks[i].id, TRUE, 0, FALSE, FALSE, FALSE)]

\* Node.run up to the call of execute: Orchestrator.begin raises on dangling inputs
Begin ==
    /\ UNCHANGED dvars
    /\ pc = "run"
    /\ IF DanglingNodes(nodes, orch_completed) # <<>>
       THEN /\ pc' = "raised"
            /\ exc' = "Dangling inputs"
            /\ runs' = Append(runs, RunRecord(OrchestratorId, FALSE, 0, TRUE, FALSE, FALSE))
       ELSE /\ pc' = "while"
            /\ UNCHANGED <<exc, runs>>
    /\ UNCHANGED <<nodes, orch_completed, dangling_sink_class, dump, root_datasets, datasets,
                   ctx_completed, done, ready, idx, completed, halted, rounds, invalid>>

\* while not completed: completed = True; ready = [...]
While ==
    /\ UNCHANGED dvars
    /\ pc = "while"
    /\ IF ~completed
       THEN /\ completed' = TRUE
            /\ ready' = Ready(nodes, done, ctx_completed, datasets, root_datasets)
            /\ idx' = 1
            /\ rounds' = rounds + 1
            /\ pc' = IF ready' = <<>> THEN "while" ELSE "for"
       ELSE /\ pc' = "dangling"
            /\ UNCHANGED <<completed, ready, idx, rounds>>
    /\ UNCHANGED <<nodes, orch_completed, dangling_sink_class, dump, root_datasets, datasets,
                   ctx_completed, done, halted, exc, invalid, runs>>

\* the body of `for node in ready`: node.run(context) and what follows it
ExecuteNode ==
    /\ UNCHANGED dvars
    /\ pc = "for"
    /\ idx <= Len(ready)
    /\ LET node == ready[idx] IN
       \E o \in Outcomes(node, dump) :
          LET rec == RunRecord(node.id, FALSE, o.exceptions, FALSE,
                               o.executeRaises, o.commitRaises)
              merged == AfterRun(datasets, node, o)
          IN  IF rec.raised
              THEN \* except Exception as err: raise err; Node.run rolls the orchestrator back
                   /\ pc' = "raised"
                   /\ exc' = "node"
                   /\ runs' = runs \o <<rec, RunRecord(OrchestratorId, FALSE, 0, FALSE, TRUE, FALSE)>>
                   /\ datasets' = merged
                   /\ UNCHANGED <<ctx_completed, done, idx, completed, halted>>
              ELSE /\ runs' = Append(runs, rec)
                   /\ datasets' = merged
                   /\ ctx_completed' = ctx_completed \cup {node.id}
                   /\ done' = Append(done, node)
                   /\ exc' = exc
                   /\ IF Halts(node, merged, root_datasets)
                      THEN /\ halted' = TRUE
                           /\ pc' = "dangling"
                           /\ UNCHANGED <<idx, completed>>
                      ELSE /\ completed' = FALSE
                           /\ halted' = halted
                           /\ IF idx < Len(ready)
                              THEN idx' = idx + 1 /\ pc' = pc
                              ELSE idx' = 1 /\ pc' = "while"
    /\ UNCHANGED <<nodes, orch_completed, dangling_sink_class, dump, root_datasets,
                   ready, rounds, invalid>>

\* Orchestrator.execute_dangling_ports, after the loop or on a halt
ExecuteDanglingPorts ==
    /\ UNCHANGED dvars
    /\ pc = "dangling"
    /\ LET sinks == DanglingSinks(nodes, dangling_sink_class, datasets, root_datasets)
       IN  /\ nodes' = nodes \o sinks
           /\ runs' = runs \o SinkRuns(sinks)
    /\ pc' = IF halted THEN "commit" ELSE "check"
    /\ UNCHANGED <<orch_completed, dangling_sink_class, dump, root_datasets, datasets,
                   ctx_completed, done, ready, idx, completed, halted, rounds, exc, invalid>>

\* the end of Orchestrator.execute: the list of nodes that cannot be completed
Check ==
    /\ UNCHANGED dvars
    /\ pc = "check"
    /\ invalid' = Invalid(nodes, ctx_completed, datasets, root_datasets)
    /\ IF completed /\ Len(invalid') > 0
       THEN /\ pc' = "raised"
            /\ exc' = "Unable to complete nodes"
            /\ runs' = Append(runs, RunRecord(OrchestratorId, FALSE, 0, FALSE, TRUE, FALSE))
       ELSE /\ pc' = "commit"
            /\ UNCHANGED <<exc, runs>>
    /\ UNCHANGED <<nodes, orch_completed, dangling_sink_class, dump, root_datasets, datasets,
                   ctx_completed, done, ready, idx, completed, halted, rounds>>

\* execute returned: Node.commit merges the subcontext into its parent
Commit ==
    /\ UNCHANGED dvars
    /\ pc = "commit"
    /\ root_datasets' = Merge(root_datasets, datasets)
    /\ runs' = Append(runs, RunRecord(OrchestratorId, FALSE, 0, FALSE, FALSE, FALSE))
    /\ pc' = "returned"
    /\ UNCHANGED <<nodes, orch_completed, dangling_sink_class, dump, datasets,
                   ctx_completed, done, ready, idx, completed, halted, rounds, exc, invalid>>

Next ==
    \/ Begin
    \/ While
    \/ ExecuteNode
    \/ ExecuteDanglingPorts
    \/ Check
    \/ Commit

Spec == Init /\ [][Next]_vars

DumpSpec == InitDump /\ [][Next]_vars

TypeOK ==
    /\ pc \in {"run", "while", "for", "dangling", "check", "commit", "returned", "raised",
               "context", "keys", "keys done", "index", "index built", "index raised",
               "trail", "trail saved", "parent", "parent saved",
               "predicate trail", "predicate trail saved",
               "denormalise", "denormalise saved",
               "cluster", "cluster select", "cluster rewrite", "cluster saved",
               "cluster raised",
               "validate", "validate rows", "validate saved", "validate raised",
               "selector", "selector committed", "selector raised",
               "lookup", "lookup saved", "parent lookup", "parent lookup saved",
               "variant", "variant saved", "variant raised",
               "reidentify", "reidentify saved"}
    /\ rounds \in Nat
    /\ completed \in BOOLEAN
    /\ halted \in BOOLEAN

\* ---- a context and the Port objects saved into it (node.py, dataset.py) ----
\* Port._default_id: a uuid, different for every Port object
DefaultId(h) == PortId("uuid", ToString(h))

\* The ids a Port object can carry: the default one, or the one that
\* label_ports of the owning node gave it; node ids are chosen by the caller
\* and two nodes can have the same one.
LabelledIds(h) ==
    {DefaultId(h)} \cup {PortId(NodeId(i), name) : i \in 1..MaxNodes, name \in {"output", "error"}}

\* no orchestrator is running
NoOrchestrator ==
    /\ nodes = <<>>
    /\ orch_completed = <<>>
    /\ dangling_sink_class = FALSE
    /\ dump = FALSE
    /\ ctx_completed = {}
    /\ done = <<>>
    /\ ready = <<>>
    /\ idx = 1
    /\ completed = FALSE
    /\ halted = FALSE
    /\ rounds = 0
    /\ exc = ""
    /\ invalid = <<>>
    /\ runs = <<>>

\* a context with an empty subcontext, and Port objects not yet saved
ContextInit ==
    /\ NoOrchestrator
    /\ pc = "context"
    /\ port_objects \in {f \in [1..MaxPorts -> UNION {LabelledIds(h) : h \in 1..MaxPorts}] :
                            \A h \in 1..MaxPorts : f[h] \in LabelledIds(h)}
    /\ saved = <<>>
    /\ datasets = <<>>
    /\ root_datasets = <<>>
    /\ transform = <<>>
    /\ data = <<>>
    /\ reference = <<>>
    /\ result = <<>>
    /\ errors = <<>>
    /\ counts = <<>>
    /\ locals = <<>>
    /\ raised = ""

\* ProcessingContext.save(port, dataset) on the subcontext, fail_on_error set
Save(h, rows) ==
    /\ pc = "context"
    /\ raised = ""
    /\ Len(saved) < MaxSaves
    /\ LET id == port_objects[h]
       IN  IF id \in DOMAIN datasets
           THEN /\ raised' = "Dataset is already set"
                /\ UNCHANGED <<datasets, saved>>
           ELSE /\ datasets' = Merge(datasets, [p \in {id} |-> rows])
                /\ saved' = Append(saved, [port |-> h, rows |-> rows])
                /\ raised' = raised
    /\ UNCHANGED <<nodes, orch_completed, dangling_sink_class, dump, root_datasets,
                   ctx_completed, done, ready, idx, completed, halted, rounds, pc, exc,
                   invalid, runs>>
    /\ UNCHANGED <<port_objects, transform, data, reference, result, errors, counts, locals>>

\* Node.commit of the node that saved: context.parent.merge(context); the
\* next node gets a new subcontext
MergeSubcontext ==
    /\ pc = "context"
    /\ raised = ""
    /\ datasets # <<>>
    /\ root_datasets' = Merge(root_datasets, datasets)
    /\ datasets' = <<>>
    /\ UNCHANGED <<nodes, orch_completed, dangling_sink_class, dump,
                   ctx_completed, done, ready, idx, completed, halted, rounds, pc, exc,
                   invalid, runs>>
    /\ UNCHANGED dvars

ContextNext ==
    \/ \E h \in 1..MaxPorts, rows \in 0..MaxRows : Save(h, rows)
    \/ MergeSubcontext

ContextSpec == ContextInit /\ [][ContextNext]_vars

\* ---- datasets of taxon-shaped records (dataset.py) ----
\* a field without a value
None == 0

\* all sequences over S of length at most n
RECURSIVE SeqsUpTo(_, _)
SeqsUpTo(S, n) ==
    IF n = 0 THEN {<<>>}
    ELSE LET shorter == SeqsUpTo(S, n - 1)
         IN  shorter \cup {Append(q, x) : q \in {r \in shorter : Len(r) = n - 1}, x \in S}

\* Index.create(dataset, keys, IndexType.UNIQUE).find on a table whose n
\* records carry the keys 1..n: the record with that key, or None
Find(table, key) == IF key \in 1..Len(table) THEN key ELSE None

\* ---- Keys (dataset.py) ----
\* the fields of the records that Keys are made for
KeyFields == {"taxonID", "parentNameUsageID"}

\* the sequences of distinct fields: no key, single-field keys, composite keys
KeyLists ==
    {<<>>} \cup {<<f>> : f \in KeyFields}
    \cup {<<x[1], x[2]>> : x \in {y \in KeyFields \X KeyFields : y[1] # y[2]}}

\* Keys.get: None without key fields, the field's value for one key field,
\* a tuple of the values for more
KeysGet(keys, record) ==
    IF Len(keys) = 0 THEN [tuple |-> FALSE, values |-> <<None>>]
    ELSE IF Len(keys) = 1 THEN [tuple |-> FALSE, values |-> <<record[keys[1]]>>]
    ELSE [tuple |-> TRUE, values |-> [i \in 1..Len(keys) |-> record[keys[i]]]]

\* Keys.set: with more than one key field the length test len(tuple) is made
\* on the type `tuple` and raises TypeError before any field is written
KeysSet(keys, record, value) ==
    IF Len(keys) > 1
    THEN [record |-> record, raised |-> "TypeError"]
    ELSE IF Len(keys) = 1
    THEN [record |-> [record EXCEPT ![keys[1]] = value.values[1]], raised |-> ""]
    ELSE [record |-> record, raised |-> "ValueError"]

\* a record with all fields present, and a fresh record of the same shape
KeysInit ==
    /\ NoOrchestrator
    /\ pc = "keys"
    /\ datasets = <<>>
    /\ root_datasets = <<>>
    /\ port_objects = <<>>
    /\ saved = <<>>
    /\ transform \in {[class |-> "Keys", keys |-> k] : k \in KeyLists}
    /\ data \in {<<r>> : r \in [KeyFields -> 0..MaxIds]}
    /\ reference = <<>>
    /\ result = <<[f \in KeyFields |-> None]>>
    /\ errors = <<>>
    /\ counts = <<>>
    /\ locals = <<>>
    /\ raised = ""

\* k.set(fresh, k.get(r))
KeysRoundTrip ==
    /\ pc = "keys"
    /\ LET set == KeysSet(transform.keys, result[1], KeysGet(transform.keys, data[1]))
       IN  /\ result' = <<set.record>>
           /\ raised' = set.raised
    /\ pc' = "keys done"
    /\ UNCHANGED <<nodes, orch_completed, dangling_sink_class, dump, root_datasets, datasets,
                   ctx_completed, done, ready, idx, completed, halted, rounds, exc,
                   invalid, runs>>
    /\ UNCHANGED <<port_objects, saved, transform, data, reference, errors, counts, locals>>

KeysNext == KeysRoundTrip

KeysSpec == KeysInit /\ [][KeysNext]_vars

\* ---- Index (dataset.py) ----
IndexTypes == {"UNIQUE", "FIRST", "MULTI"}

\* the rows of a dataset with the given keys: Record objects are told apart
\* by their line
Rows(ks) == [i \in 1..Len(ks) |-> [line |-> i, key |-> ks[i]]]

\* index.get(key)
IndexGet(index, key) == IF key \in DOMAIN index THEN index[key] ELSE None

\* an _add in which a later record replaces the earlier one in a FIRST index
IndexAdd_KeepLast(index, type, record) ==
    LET key == record.key
    IN  IF key = None THEN [index |-> index, raised |-> "No key for record"]
        ELSE IF type = "MULTI"
        THEN IF key \notin DOMAIN index
             THEN [index |-> (key :> <<record.line>>) @@ index, raised |-> ""]
             ELSE [index |-> [index EXCEPT ![key] = Append(@, record.line)], raised |-> ""]
        ELSE IF key \notin DOMAIN index
        THEN [index |-> (key :> record.line) @@ index, raised |-> ""]
        ELSE IF type = "FIRST"
        THEN [index |-> [index EXCEPT ![key] = record.line], raised |-> ""]
        ELSE [index |-> index, raised |-> "Duplicate key"]

\* Index._add: the index after the call, and the ValueError it raised
IndexAdd(index, type, record) ==
    LET key == record.key
    IN  IF key = None THEN [index |-> index, raised |-> "No key for record"]
        ELSE IF type = "MULTI"
        THEN IF key \notin DOMAIN index
             THEN [index |-> (key :> <<record.line>>) @@ index, raised |-> ""]
             ELSE [index |-> [index EXCEPT ![key] = Append(@, record.line)], raised |-> ""]
        ELSE IF key \notin DOMAIN index
        THEN [index |-> (key :> record.line) @@ index, raised |-> ""]
        ELSE IF type = "FIRST"
        THEN [index |-> index, raised |-> ""]
        ELSE [index |-> index, raised |-> "Duplicate key"]

\* Index.create(dataset, keys, type) on a dataset of a few rows
IndexInit ==
    /\ NoOrchestrator
    /\ pc = "index"
    /\ datasets = <<>>
    /\ root_datasets = <<>>
    /\ port_objects = <<>>
    /\ saved = <<>>
    /\ transform \in {[class |-> "Index", type |-> t] : t \in IndexTypes}
    /\ data \in {Rows(ks) : ks \in SeqsUpTo(0..MaxIds, MaxData)}
    /\ reference = <<>>
    /\ result = <<>>
    /\ errors = <<>>
    /\ counts = <<>>
    /\ locals = [line |-> 1, index |-> <<>>]
    /\ raised = ""

\* Index.__attrs_post_init__: for record in self.dataset.rows: self._add(record)
IndexAddRow ==
    /\ pc = "index"
    /\ locals.line <= Len(data)
    /\ LET add == IndexAdd(locals.index, transform.type, data[locals.line])
       IN  IF add.raised # ""
           THEN /\ raised' = add.raised
                /\ pc' = "index raised"
                /\ locals' = locals
           ELSE /\ locals' = [line |-> locals.line + 1, index |-> add.index]
                /\ UNCHANGED <<raised, pc>>
    /\ UNCHANGED <<nodes, orch_completed, dangling_sink_class, dump, root_datasets, datasets,
                   ctx_completed, done, ready, idx, completed, halted, rounds, exc,
                   invalid, runs>>
    /\ UNCHANGED <<port_objects, saved, transform, data, reference, result, errors, counts>>

\* the constructor returns
IndexBuilt ==
    /\ pc = "index"
    /\ locals.line > Len(data)
    /\ pc' = "index built"
    /\ UNCHANGED <<nodes, orch_completed, dangling_sink_class, dump, root_datasets, datasets,
                   ctx_completed, done, ready, idx, completed, halted, rounds, exc,
                   invalid, runs>>
    /\ UNCHANGED dvars

IndexNext ==
    \/ IndexAddRow
    \/ IndexBuilt

IndexSpec == IndexInit /\ [][IndexNext]_vars

\* ---- TrailTransform (transform.py) ----
\* The pointers a reference table of n records can hold.  A table without
\* cycles can be numbered so that every pointer goes to a smaller id; the
\* id n + 1 is carried by no record of the table.
TrailLinks(n) ==
    {<<"parent", x[1], x[2]>> : x \in {y \in (1..n) \X (1..n) : y[2] < y[1]}}
    \cup {<<"parent", i, n + 1>> : i \in 1..n}
    \cup {<<"accepted", x[1], x[2]>> : x \in {y \in (1..n) \X (1..n) : y[2] < y[1]}}

\* the pointer of the kind that the links give record i
Pointer(links, kind, i) ==
    LET to == {l[3] : l \in {k \in links : k[1] = kind /\ k[2] = i}}
    IN  IF to = {} THEN None ELSE CHOOSE t \in to : TRUE

ReferenceTable(n, links) ==
    [i \in 1..n |-> [id |-> i,
                     parent |-> Pointer(links, "parent", i),
                     accepted |-> Pointer(links, "accepted", i)]]

\* every record has at most one parent and one accepted pointer
OnePointerEach(links) ==
    \A k \in links : \A l \in links : (k[1] = l[1] /\ k[2] = l[2]) => k = l

TrailInit ==
    /\ NoOrchestrator
    /\ pc = "trail"
    /\ datasets = <<>>
    /\ root_datasets = <<>>
    /\ port_objects = <<>>
    /\ saved = <<>>
    /\ transform = [class |-> "TrailTransform", predicate |-> "None"]
    /\ \E n \in 0..MaxIds : \E links \in KSubsets(TrailLinks(n), MaxRefLinks) :
          /\ OnePointerEach(links)
          /\ reference = ReferenceTable(n, links)
    /\ data \in SeqsUpTo(1..MaxIds, MaxData)
    /\ result = <<>>
    /\ errors = <<>>
    /\ counts = [accepted |-> 0, error |-> 0, processed |-> 0]
    /\ locals = [line |-> 1, seen |-> <<>>, acquired |-> reference]
    /\ raised = ""

\* a trace that emits the record before it follows its pointers
RECURSIVE Trace_RecordFirst(_, _)
Trace_RecordFirst(st, r) ==
    IF r \in DOMAIN st.seen THEN [st EXCEPT !.ret = st.seen[r]]
    ELSE LET s1 == [st EXCEPT !.seen = (r :> r) @@ @, !.result = Append(@, r)]
             parent == Find(s1.table, s1.table[r].parent)
             s2 == IF parent # None
                   THEN LET t == Trace_RecordFirst(s1, parent)
                        IN  [t EXCEPT !.table[r].parent = t.ret]
                   ELSE [s1 EXCEPT !.table[r].parent = None]
             accepted == Find(s2.table, s2.table[r].accepted)
             s3 == IF accepted # None
                   THEN LET t == Trace_RecordFirst(s2, accepted)
                        IN  [t EXCEPT !.table[r].accepted = t.ret]
                   ELSE [s2 EXCEPT !.table[r].accepted = None]
         IN  [s3 EXCEPT !.accepted = @ + 1, !.ret = r]

\* TrailTransform.trace without a predicate, on the record with handle r of
\* the reference table: st holds the records of the table (which trace
\* writes to), the dict `seen`, the rows of `result` (handles of records of
\* the table) and the accepted counter; ret is the returned record.
RECURSIVE Trace(_, _)
Trace(st, r) ==
    IF r \in DOMAIN st.seen THEN [st EXCEPT !.ret = st.seen[r]]
    ELSE LET s1 == [st EXCEPT !.seen = (r :> r) @@ @]
             parent == Find(s1.table, s1.table[r].parent)
             s2 == IF parent # None
                   THEN LET t == Trace(s1, parent)
                        IN  [t EXCEPT !.table[r].parent = t.ret]
                   ELSE [s1 EXCEPT !.table[r].parent = None]
             accepted == Find(s2.table, s2.table[r].accepted)
             s3 == IF accepted # None
                   THEN LET t == Trace(s2, accepted)
                        IN  [t EXCEPT !.table[r].accepted = t.ret]
                   ELSE [s2 EXCEPT !.table[r].accepted = None]
         IN  [s3 EXCEPT !.result = Append(@, r), !.accepted = @ + 1, !.ret = r]

\* the body of `for record in data.rows` of TrailTransform.execute
TrailRow ==
    /\ pc = "trail"
    /\ locals.line <= Len(data)
    /\ LET actual == Find(reference, data[locals.line])
       IN  IF actual = None
           THEN /\ errors' = Append(errors, [id |-> data[locals.line],
                                             issues |-> "Missing reference entry"])
                /\ counts' = [counts EXCEPT !.error = @ + 1, !.processed = @ + 1]
                /\ locals' = [locals EXCEPT !.line = @ + 1]
                /\ UNCHANGED <<reference, result>>
           ELSE LET t == Trace([table |-> reference, seen |-> locals.seen, result |-> result,
                                accepted |-> counts.accepted, ret |-> None], actual)
                IN  /\ reference' = t.table
                    /\ result' = t.result
                    /\ counts' = [counts EXCEPT !.accepted = t.accepted, !.processed = @ + 1]
                    /\ locals' = [locals EXCEPT !.line = @ + 1, !.seen = t.seen]
                    /\ errors' = errors
    /\ UNCHANGED ovars
    /\ UNCHANGED <<port_objects, saved, transform, data, raised>>

\* context.save(self.output, result); context.save(self.error, errors)
TrailSave ==
    /\ pc = "trail"
    /\ locals.line > Len(data)
    /\ pc' = "trail saved"
    /\ UNCHANGED <<nodes, orch_completed, dangling_sink_class, dump, root_datasets, datasets,
                   ctx_completed, done, ready, idx, completed, halted, rounds, exc,
                   invalid, runs>>
    /\ UNCHANGED dvars

TrailNext ==
    \/ TrailRow
    \/ TrailSave

TrailSpec == TrailInit /\ [][TrailNext]_vars

\* ---- ParentTransform (afd/parent.py) ----
\* the full table: records with TAXON_ID 1..MaxIds and any PARENT_ID, a
\* missing one (MaxIds + 1) and None included
ParentTables == [1..MaxIds -> 0..(MaxIds + 1)]

FullTable(parents) == [i \in 1..MaxIds |-> [id |-> i, parent |-> parents[i]]]

\* TAXON_ID of the records of the input, which data_index knows; the input
\* holds the records of the full table that a filter let through
DataIds == {data[i].id : i \in 1..Len(data)}

ParentInit ==
    /\ NoOrchestrator
    /\ pc = "parent"
    /\ datasets = <<>>
    /\ root_datasets = <<>>
    /\ port_objects = <<>>
    /\ saved = <<>>
    /\ reference \in {FullTable(parents) : parents \in ParentTables}
    /\ \E ids \in SUBSET (1..MaxIds) :
          /\ data = SelectSeq(reference, LAMBDA r : r.id \in ids)
          /\ transform \in {[class |-> "ParentTransform", default_kingdom |-> k] :
                                k \in ids \cup {None}}
    /\ result = <<>>
    /\ errors = <<>>
    /\ counts = [accepted |-> 0, error |-> 0, processed |-> 0]
    /\ locals = [line |-> 1,
                 parent |-> IF data = <<>> THEN None ELSE data[1].id,
                 trail |-> {},
                 walking |-> TRUE]
    /\ raised = ""

\* link_keys.get(parent): the PARENT_ID of the record
LinkKey(parent) == reference[parent].parent

\* one pass through the body of `while True` of ParentTransform.execute
ParentWalk ==
    /\ pc = "parent"
    /\ locals.line <= Len(data)
    /\ locals.walking
    /\ LET record == data[locals.line]
           kv == LinkKey(locals.parent)
           found == Find(reference, kv)
       IN  IF kv \in locals.trail
           THEN \* circular trail: error record, default kingdom, break
                /\ errors' = Append(errors, [id |-> record.id,
                                             issues |-> "Circular history reference"])
                /\ counts' = [counts EXCEPT !.error = @ + 1]
                /\ locals' = [locals EXCEPT !.parent = transform.default_kingdom,
                                            !.walking = FALSE]
           ELSE IF found = None
           THEN \* no parent: counted for a record that is no kingdom, break
                /\ counts' = [counts EXCEPT !.error =
                                  IF record.id # transform.default_kingdom THEN @ + 1 ELSE @]
                /\ locals' = [locals EXCEPT !.trail = @ \cup {kv},
                                            !.parent = IF record.id # transform.default_kingdom
                                                       THEN transform.default_kingdom
                                                       ELSE None,
                                            !.walking = FALSE]
                /\ errors' = errors
           ELSE \* a parent: break when the input holds it, else walk on
                /\ locals' = [locals EXCEPT !.trail = @ \cup {kv},
                                            !.parent = found,
                                            !.walking = found \notin DataIds]
                /\ UNCHANGED <<errors, counts>>
    /\ UNCHANGED ovars
    /\ UNCHANGED <<port_objects, saved, transform, data, reference, result, raised>>

\* after the loop: compose the record with the parent found, count it and
\* begin with the next record (parent = record; trail = set())
ParentCompose ==
    /\ pc = "parent"
    /\ locals.line <= Len(data)
    /\ ~locals.walking
    /\ result' = Append(result, [id |-> data[locals.line].id, parent |-> locals.parent])
    /\ counts' = [counts EXCEPT !.accepted = @ + 1, !.processed = @ + 1]
    /\ locals' = [line |-> locals.line + 1,
                  parent |-> IF locals.line < Len(data) THEN data[locals.line + 1].id ELSE None,
                  trail |-> {},
                  walking |-> TRUE]
    /\ UNCHANGED ovars
    /\ UNCHANGED <<port_objects, saved, transform, data, reference, errors, raised>>

\* context.save(self.output, result); context.save(self.error, errors)
ParentSave ==
    /\ pc = "parent"
    /\ locals.line > Len(data)
    /\ pc' = "parent saved"
    /\ UNCHANGED <<nodes, orch_completed, dangling_sink_class, dump, root_datasets, datasets,
                   ctx_completed, done, ready, idx, completed, halted, rounds, exc,
                   invalid, runs>>
    /\ UNCHANGED dvars

ParentNext ==
    \/ ParentWalk
    \/ ParentCompose
    \/ ParentSave

ParentSpec == ParentInit /\ [][ParentNext]_vars

\* ---- DwcTaxonReidentify (dwc/transform.py) ----
\* the pointers a taxon dataset of n records can hold: to any record, itself
\* included, and to the identifier n + 1 that no record carries
TaxonLinks(n) ==
    {<<"parent", i, j>> : i \in 1..n, j \in 1..(n + 1)}
    \cup {<<"accepted", i, j>> : i \in 1..n, j \in 1..(n + 1)}

\* str(uuid.uuid4()): an identifier that nothing else carries
Uuid(line) == 0 - line

\* The input holds n records with the taxonID 1..n; the identifier function,
\* which may be stateful, returns identifier[line] for the record at that
\* line and does not raise.
ReidentifyInit ==
    /\ NoOrchestrator
    /\ pc = "reidentify"
    /\ datasets = <<>>
    /\ root_datasets = <<>>
    /\ port_objects = <<>>
    /\ saved = <<>>
    /\ \E n \in 0..MaxData : \E links \in KSubsets(TaxonLinks(n), MaxRefLinks) :
          /\ OnePointerEach(links)
          /\ data = ReferenceTable(n, links)
          /\ transform \in {[class |-> "DwcTaxonReidentify", identifier |-> f] :
                                f \in [1..n -> 1..(MaxIds + 1)]}
    /\ reference = <<>>
    /\ result = <<>>
    /\ errors = <<>>
    /\ counts = [mapped |-> 0, accepted |-> 0, processed |-> 0]
    /\ locals = [pass |-> 1, line |-> 1, map_lookup |-> <<>>, map_replace |-> <<>>,
                 mapping |-> <<>>]
    /\ raised = ""

\* the body of the first `for record in data.rows`: choose the identifiers
ReidentifyMap ==
    /\ pc = "reidentify"
    /\ locals.pass = 1
    /\ locals.line <= Len(data)
    /\ LET original == data[locals.line].id
           id == transform.identifier[locals.line]
       IN  IF id \in DOMAIN locals.map_lookup
           THEN locals' = [locals EXCEPT
                              !.map_replace = (locals.line :> Uuid(locals.line)) @@ @,
                              !.line = @ + 1]
           ELSE locals' = [locals EXCEPT
                              !.map_lookup = (original :> id) @@ @,
                              !.mapping = Append(@, [term |-> original, mapping |-> id]),
                              !.map_replace = (locals.line :> id) @@ @,
                              !.line = @ + 1]
    /\ counts' = [counts EXCEPT !.mapped = @ + 1]
    /\ UNCHANGED ovars
    /\ UNCHANGED <<port_objects, saved, transform, data, reference, result, errors, raised>>

\* line = 0 before the second loop
ReidentifySecondPass ==
    /\ pc = "reidentify"
    /\ locals.pass = 1
    /\ locals.line > Len(data)
    /\ locals' = [locals EXCEPT !.pass = 2, !.line = 1]
    /\ UNCHANGED ovars
    /\ UNCHANGED <<port_objects, saved, transform, data, reference, result, errors, counts,
                   raised>>

\* map_lookup.get(original, original)
MapLookup(map_lookup, original) ==
    IF original \in DOMAIN map_lookup THEN map_lookup[original] ELSE original

\* the body of the second `for record in data.rows`: rewrite a copy
ReidentifyRewrite ==
    /\ pc = "reidentify"
    /\ locals.pass = 2
    /\ locals.line <= Len(data)
    /\ LET record == data[locals.line]
           id == IF locals.line \in DOMAIN locals.map_replace
                 THEN locals.map_replace[locals.line] ELSE record.id
           parent == Find(data, record.parent)
           accepted == Find(data, record.accepted)
           composed == [id |-> id,
                        parent |-> IF parent # None
                                   THEN MapLookup(locals.map_lookup, data[parent].id)
                                   ELSE record.parent,
                        accepted |-> IF accepted # None
                                     THEN MapLookup(locals.map_lookup, data[accepted].id)
                                     ELSE record.accepted]
       IN  result' = Append(result, composed)
    /\ counts' = [counts EXCEPT !.accepted = @ + 1, !.processed = @ + 1]
    /\ locals' = [locals EXCEPT !.line = @ + 1]
    /\ UNCHANGED ovars
    /\ UNCHANGED <<port_objects, saved, transform, data, reference, errors, raised>>

\* context.save of the output, mapping and error datasets
ReidentifySave ==
    /\ pc = "reidentify"
    /\ locals.pass = 2
    /\ locals.line > Len(data)
    /\ pc' = "reidentify saved"
    /\ UNCHANGED <<nodes, orch_completed, dangling_sink_class, dump, root_datasets, datasets,
                   ctx_completed, done, ready, idx, completed, halted, rounds, exc,
                   invalid, runs>>
    /\ UNCHANGED dvars

ReidentifyNext ==
    \/ ReidentifyMap
    \/ ReidentifySecondPass
    \/ ReidentifyRewrite
    \/ ReidentifySave

ReidentifySpec == ReidentifyInit /\ [][ReidentifyNext]_vars

\* ---- TrailTransform with a predicate, on any reference table (transform.py) ----
\* The pointers a reference table of n records can hold, pointers that close
\* a cycle included; the id n + 1 is carried by no record of the table.
AnyLinks(n) ==
    {<<"parent", x[1], x[2]>> : x \in (1..n) \X (1..(n + 1))}
    \cup {<<"accepted", x[1], x[2]>> : x \in (1..n) \X (1..n)}

\* a predicate is given by the records it accepts; without a predicate
\* (predicate is None) every test in trace is skipped
Predicates(n) ==
    {[given |-> FALSE, accepts |-> {}]} \cup {[given |-> TRUE, accepts |-> S] : S \in SUBSET (1..n)}

PredicateTrailInit ==
    /\ NoOrchestrator
    /\ pc = "predicate trail"
    /\ datasets = <<>>
    /\ root_datasets = <<>>
    /\ port_objects = <<>>
    /\ saved = <<>>
    /\ \E n \in 0..MaxIds : \E links \in KSubsets(AnyLinks(n), MaxTrailLinks) :
          /\ OnePointerEach(links)
          /\ reference = ReferenceTable(n, links)
          /\ transform \in {[class |-> "TrailTransform", predicate |-> p] : p \in Predicates(n)}
    /\ data \in SeqsUpTo(1..MaxIds, MaxData)
    /\ result = <<>>
    /\ errors = <<>>
    /\ counts = [accepted |-> 0, error |-> 0, processed |-> 0]
    /\ locals = [line |-> 1, seen |-> <<>>, acquired |-> reference]
    /\ raised = ""

\* self.predicate is None or self.predicate.test(record)
Passes(predicate, r) == ~predicate.given \/ r \in predicate.accepts

\* TrailTransform.trace(index, record, seen, result, context, required) on
\* the record with handle r of the reference table: st holds the records of
\* the table (which trace writes to), the dict `seen`, the rows of `result`
\* (handles of records of the table) and the accepted counter; ret is the
\* returned record, None included.
RECURSIVE TracePredicate(_, _, _, _)
TracePredicate(predicate, st, r, required) ==
    IF r \in DOMAIN st.seen THEN [st EXCEPT !.ret = st.seen[r]]
    ELSE LET s1 == [st EXCEPT !.seen = (r :> r) @@ @]
             found == Find(s1.table, s1.table[r].parent)
             s2 == IF found # None
                   THEN LET t == TracePredicate(predicate, s1, found, FALSE)
                        IN  [t EXCEPT !.table[r].parent = t.ret]
                   ELSE [s1 EXCEPT !.table[r].parent = None]
             \* the local `parent` after the recursive call
             parent == s2.table[r].parent
             accepted == Find(s2.table, s2.table[r].accepted)
             s3 == IF accepted # None
                   THEN LET t == TracePredicate(predicate, s2, accepted, FALSE)
                        IN  [t EXCEPT !.table[r].accepted = t.ret]
                   ELSE [s2 EXCEPT !.table[r].accepted = None]
             s4 == [s3 EXCEPT !.accepted = @ + 1]
         IN  IF required \/ Passes(predicate, r)
             THEN [s4 EXCEPT !.result = Append(@, r), !.ret = r]
             ELSE IF parent # None /\ Passes(predicate, parent)
             THEN [s4 EXCEPT !.seen = (r :> parent) @@ @, !.ret = parent]
             ELSE [s4 EXCEPT !.seen = (r :> None) @@ @, !.ret = None]

\* the body of `for record in data.rows` of TrailTransform.execute
PredicateTrailRow ==
    /\ pc = "predicate trail"
    /\ locals.line <= Len(data)
    /\ LET actual == Find(reference, data[locals.line])
       IN  IF actual = None
           THEN /\ errors' = Append(errors, [id |-> data[locals.line],
                                             issues |-> "Missing reference entry"])
                /\ counts' = [counts EXCEPT !.error = @ + 1, !.processed = @ + 1]
                /\ locals' = [locals EXCEPT !.line = @ + 1]
                /\ UNCHANGED <<reference, result>>
           ELSE LET t == TracePredicate(transform.predicate,
                                        [table |-> reference, seen |-> locals.seen,
                                         result |-> result, accepted |-> counts.accepted,
                                         ret |-> None], actual, TRUE)
                IN  /\ reference' = t.table
                    /\ result' = t.result
                    /\ counts' = [counts EXCEPT !.accepted = t.accepted, !.processed = @ + 1]
                    /\ locals' = [locals EXCEPT !.line = @ + 1, !.seen = t.seen]
                    /\ errors' = errors
    /\ UNCHANGED ovars
    /\ UNCHANGED <<port_objects, saved, transform, data, raised>>

\* context.save(self.output, result); context.save(self.error, errors)
PredicateTrailSave ==
    /\ pc = "predicate trail"
    /\ locals.line > Len(data)
    /\ pc' = "predicate trail saved"
    /\ UNCHANGED <<nodes, orch_completed, dangling_sink_class, dump, root_datasets, datasets,
                   ctx_completed, done, ready, idx, completed, halted, rounds, exc,
                   invalid, runs>>
    /\ UNCHANGED dvars

PredicateTrailNext ==
    \/ PredicateTrailRow
    \/ PredicateTrailSave

PredicateTrailSpec == PredicateTrailInit /\ [][PredicateTrailNext]_vars

\* ---- DenormaliseTransform (transform.py) ----
\* text is a sequence of characters; a field holds None or text
Alphabet == {"a", "b", " ", ","}

NoValue == [isNone |-> TRUE, text |-> <<>>]

Text(s) == [isNone |-> FALSE, text |-> s]

\* the values a field can hold
FieldValues == {NoValue} \cup {Text(s) : s \in SeqsUpTo(Alphabet, MaxChars)}

\* str.strip(): leading and trailing whitespace removed
RECURSIVE Strip(_)
Strip(s) ==
    IF s = <<>> THEN s
    ELSE IF Head(s) = " " THEN Strip(Tail(s))
    ELSE IF s[Len(s)] = " " THEN Strip(SubSeq(s, 1, Len(s) - 1))
    ELSE s

\* str.split(delimiter): the pieces between the occurrences of the
\* delimiter, empty pieces included
RECURSIVE Split(_, _)
Split(s, delimiter) ==
    IF \A i \in 1..Len(s) : s[i] # delimiter THEN <<s>>
    ELSE LET at == CHOOSE i \in 1..Len(s) :
                      s[i] = delimiter /\ \A j \in 1..(i - 1) : s[j] # delimiter
         IN  <<SubSeq(s, 1, at - 1)>> \o Split(SubSeq(s, at + 1, Len(s)), delimiter)

\* DenormaliseTransform._delimiter_expand: None for a null or blank field
DelimiterExpand(r, delimiter) ==
    IF r.value.isNone \/ Len(Strip(r.value.text)) = 0
    THEN [isNone |-> TRUE, values |-> <<>>]
    ELSE [isNone |-> FALSE, values |-> Split(Strip(r.value.text), delimiter)]

\* DenormaliseTransform.compose: a copy of the record with the field
\* replaced and _index stamped
DenormaliseCompose(record, value, index) ==
    [line |-> record.line, value |-> Text(value), index |-> <<index>>]

\* a loop that counts every piece, blank ones included
RECURSIVE Expand_CountBlank(_, _, _, _)
Expand_CountBlank(record, values, i, index) ==
    IF i > Len(values) THEN <<>>
    ELSE LET v == Strip(values[i])
         IN  IF Len(v) > 0
             THEN <<DenormaliseCompose(record, v, index)>>
                  \o Expand_CountBlank(record, values, i + 1, index + 1)
             ELSE Expand_CountBlank(record, values, i + 1, index + 1)

\* `for v in values` of DenormaliseTransform.execute from the i-th value on:
\* the rows added to the result
RECURSIVE Expand(_, _, _, _)
Expand(record, values, i, index) ==
    IF i > Len(values) THEN <<>>
    ELSE LET v == Strip(values[i])
         IN  IF Len(v) > 0
             THEN <<DenormaliseCompose(record, v, index)>>
                  \o Expand(record, values, i + 1, index + 1)
             ELSE Expand(record, values, i + 1, index)

\* the rows of the input: no _index on them
DenormaliseInit ==
    /\ NoOrchestrator
    /\ pc = "denormalise"
    /\ datasets = <<>>
    /\ root_datasets = <<>>
    /\ port_objects = <<>>
    /\ saved = <<>>
    /\ transform \in {[class |-> "DenormaliseTransform", field |-> "value", delimiter |-> ",",
                       include_empty |-> e] : e \in BOOLEAN}
    /\ data \in {[i \in 1..Len(vs) |-> [line |-> i, value |-> vs[i], index |-> <<>>]] :
                    vs \in SeqsUpTo(FieldValues, MaxSplitRows)}
    /\ reference = <<>>
    /\ result = <<>>
    /\ errors = <<>>
    /\ counts = [accepted |-> 0, error |-> 0, processed |-> 0]
    /\ locals = [line |-> 1]
    /\ raised = ""

\* the body of `for record in data.rows` of DenormaliseTransform.execute
DenormaliseRow ==
    /\ pc = "denormalise"
    /\ locals.line <= Len(data)
    /\ LET record == data[locals.line]
           expanded == DelimiterExpand(record, transform.delimiter)
       IN  IF expanded.isNone \/ Len(expanded.values) = 0
           THEN IF transform.include_empty
                THEN /\ result' = Append(result, record)
                     /\ counts' = [counts EXCEPT !.processed = @ + 1]
                ELSE /\ result' = result
                     /\ counts' = [counts EXCEPT !.processed = @ + 1]
           ELSE LET rows == Expand(record, expanded.values, 1, 0)
                IN  /\ result' = result \o rows
                    /\ counts' = [counts EXCEPT !.processed = @ + 1, !.accepted = @ + Len(rows)]
    /\ locals' = [locals EXCEPT !.line = @ + 1]
    /\ UNCHANGED ovars
    /\ UNCHANGED <<port_objects, saved, transform, data, reference, errors, raised>>

\* context.save(self.output, result); context.save(self.error, errors)
DenormaliseSave ==
    /\ pc = "denormalise"
    /\ locals.line > Len(data)
    /\ pc' = "denormalise saved"
    /\ UNCHANGED <<nodes, orch_completed, dangling_sink_class, dump, root_datasets, datasets,
                   ctx_completed, done, ready, idx, completed, halted, rounds, exc,
                   invalid, runs>>
    /\ UNCHANGED dvars

DenormaliseNext ==
    \/ DenormaliseRow
    \/ DenormaliseSave

DenormaliseSpec == DenormaliseInit /\ [][DenormaliseNext]_vars

\* ---- ClusterTransform (transform.py) ----
\* the pointers the n rows of an input can hold: every pointer is the
\* identifier of a row of the same input
ClusterLinks(n) ==
    {<<"parent", x[1], x[2]>> : x \in (1..n) \X (1..n)}
    \cup {<<"accepted", x[1], x[2]>> : x \in (1..n) \X (1..n)}

\* the selectors of the model: no selector, or one that keeps one member of
\* the cluster
Selectors == {"None", "first", "last"}

\* self.selector((sig), cluster)
Select(selector, cluster) ==
    IF selector = "None" THEN cluster
    ELSE IF selector = "first" THEN <<cluster[1]>>
    ELSE <<cluster[Len(cluster)]>>

\* rows with distinct identifiers, any signature, and a few pointers
ClusterInit ==
    /\ NoOrchestrator
    /\ pc = "cluster"
    /\ datasets = <<>>
    /\ root_datasets = <<>>
    /\ port_objects = <<>>
    /\ saved = <<>>
    /\ transform \in {[class |-> "ClusterTransform", selector |-> s, record_rejects |-> r,
                       parent_keys |-> p, accepted_keys |-> a] :
                         s \in Selectors, r \in BOOLEAN, p \in BOOLEAN, a \in BOOLEAN}
    /\ \E n \in 0..MaxIds : \E links \in KSubsets(ClusterLinks(n), MaxRefLinks) :
       \E sigs \in [1..n -> 1..MaxSignatures] :
          /\ OnePointerEach(links)
          /\ data = [i \in 1..n |-> [id |-> i, signature |-> sigs[i],
                                     parent |-> Pointer(links, "parent", i),
                                     accepted |-> Pointer(links, "accepted", i)]]
    /\ reference = <<>>
    /\ result = <<>>
    /\ errors = <<>>
    /\ counts = [accepted |-> 0, error |-> 0, processed |-> 0, rejected |-> 0]
    /\ locals = [clusters |-> <<>>, used |-> <<>>, remap |-> <<>>, rejects |-> <<>>]
    /\ raised = ""

\* the clusters after the rows from the i-th on are appended: an ordered
\* list of [signature, rows]
RECURSIVE AppendRows(_, _, _)
AppendRows(clusters, rows, i) ==
    IF i > Len(rows) THEN clusters
    ELSE LET sig == rows[i].signature
             at == {k \in 1..Len(clusters) : clusters[k].signature = sig}
         IN  IF at # {}
             THEN LET k == CHOOSE k \in at : TRUE
                  IN  AppendRows([clusters EXCEPT ![k].rows = Append(@, rows[i])], rows, i + 1)
             ELSE AppendRows(Append(clusters, [signature |-> sig, rows |-> <<rows[i]>>]),
                             rows, i + 1)

\* the first loop of ClusterTransform.execute: rows are grouped by signature
ClusterRows ==
    /\ pc = "cluster"
    /\ pc' = "cluster select"
    /\ locals' = [locals EXCEPT !.clusters = AppendRows(<<>>, data, 1)]
    /\ counts' = [counts EXCEPT !.processed = Len(data)]
    /\ UNCHANGED <<nodes, orch_completed, dangling_sink_class, dump, root_datasets, datasets,
                   ctx_completed, done, ready, idx, completed, halted, rounds, exc,
                   invalid, runs>>
    /\ UNCHANGED <<port_objects, saved, transform, data, reference, result, errors, raised>>

\* `for (sig, cluster) in clusters.items()` from the k-th cluster on: the
\* selected rows go to `used` and map to themselves; with a reject port the
\* other rows go to `rejects` and map to the first selected row
RECURSIVE SelectClusters(_, _, _)
SelectClusters(tr, st, k) ==
    IF k > Len(st.clusters) THEN st
    ELSE LET all == st.clusters[k].rows
             cluster == Select(tr.selector, all)
             kept == [i \in {r.id : r \in Range(cluster)} |-> i]
             removed == SelectSeq(all, LAMBDA r : r \notin Range(cluster))
             rejecting == tr.record_rejects /\ Len(cluster) < Len(all)
             mapped == IF rejecting
                       THEN [i \in {r.id : r \in Range(removed)} |-> cluster[1].id]
                       ELSE <<>>
         IN  SelectClusters(tr,
                 [st EXCEPT !.used = @ \o cluster,
                            !.remap = mapped @@ kept @@ @,
                            !.rejects = IF rejecting THEN @ \o removed ELSE @],
                 k + 1)

\* the second loop of ClusterTransform.execute
ClusterSelect ==
    /\ pc = "cluster select"
    /\ pc' = "cluster rewrite"
    /\ locals' = SelectClusters(transform, locals, 1)
    /\ counts' = [counts EXCEPT !.accepted = Len(locals'.used), !.rejected = Len(locals'.rejects)]
    /\ UNCHANGED <<nodes, orch_completed, dangling_sink_class, dump, root_datasets, datasets,
                   ctx_completed, done, ready, idx, completed, halted, rounds, exc,
                   invalid, runs>>
    /\ UNCHANGED <<port_objects, saved, transform, data, reference, result, errors, raised>>

\* the pointer of a copy after the lookup in remap; a pointer not in remap
\* raises
Remapped(remap, declared, pointer) ==
    IF ~declared \/ pointer = None THEN [value |-> pointer, raised |-> ""]
    ELSE IF pointer \notin DOMAIN remap THEN [value |-> pointer, raised |-> "ValueError"]
    ELSE [value |-> remap[pointer], raised |-> ""]

\* the third loop of ClusterTransform.execute and the saves: the ValueError
\* of a pointer that is not in remap leaves execute
ClusterRewrite ==
    /\ pc = "cluster rewrite"
    /\ LET parents == [i \in 1..Len(locals.used) |->
                          Remapped(locals.remap, transform.parent_keys, locals.used[i].parent)]
           accepteds == [i \in 1..Len(locals.used) |->
                          Remapped(locals.remap, transform.accepted_keys, locals.used[i].accepted)]
           failed == {i \in 1..Len(locals.used) :
                          parents[i].raised # "" \/ accepteds[i].raised # ""}
       IN  IF failed # {}
           THEN /\ raised' = "ValueError"
                /\ pc' = "cluster raised"
                /\ result' = SubSeq([i \in 1..Len(locals.used) |->
                                        [locals.used[i] EXCEPT !.parent = parents[i].value,
                                                               !.accepted = accepteds[i].value]],
                                    1, (CHOOSE i \in failed : \A j \in failed : i <= j) - 1)
           ELSE /\ raised' = raised
                /\ pc' = "cluster saved"
                /\ result' = [i \in 1..Len(locals.used) |->
                                 [locals.used[i] EXCEPT !.parent = parents[i].value,
                                                        !.accepted = accepteds[i].value]]
    /\ UNCHANGED <<nodes, orch_completed, dangling_sink_class, dump, root_datasets, datasets,
                   ctx_completed, done, ready, idx, completed, halted, rounds, exc,
                   invalid, runs>>
    /\ UNCHANGED <<port_objects, saved, transform, data, reference, errors, counts, locals>>

ClusterNext ==
    \/ ClusterRows
    \/ ClusterSelect
    \/ ClusterRewrite

ClusterSpec == ClusterInit /\ [][ClusterNext]_vars

\* ---- DwcTaxonValidate (dwc/transform.py) ----
\* Index.__attrs_post_init__ from the i-th row on: the index of lines by
\* key, and the ValueError that _add raised
RECURSIVE BuildIndex(_, _, _, _)
BuildIndex(index, type, rows, i) ==
    IF i > Len(rows) THEN [index |-> index, raised |-> ""]
    ELSE LET add == IndexAdd(index, type, [line |-> i, key |-> rows[i].id])
         IN  IF add.raised # "" THEN add ELSE BuildIndex(add.index, type, rows, i + 1)

\* records with any taxonID, parentNameUsageID and acceptedNameUsageID, None
\* included; check_names is off
ValidateInit ==
    /\ NoOrchestrator
    /\ pc = "validate"
    /\ datasets = <<>>
    /\ root_datasets = <<>>
    /\ port_objects = <<>>
    /\ saved = <<>>
    /\ transform = [class |-> "DwcTaxonValidate", check_names |-> FALSE]
    /\ data \in {[i \in 1..Len(rs) |-> [line |-> i, id |-> rs[i][1], parent |-> rs[i][2],
                                        accepted |-> rs[i][3]]] :
                    rs \in SeqsUpTo((0..MaxIds) \X (0..MaxIds) \X (0..MaxIds), MaxData)}
    /\ reference = <<>>
    /\ result = <<>>
    /\ errors = <<>>
    /\ counts = [accepted |-> 0, error |-> 0, processed |-> 0]
    /\ locals = [line |-> 1, index |-> <<>>]
    /\ raised = ""

\* index = Index.create(data, self.taxon_keys, IndexType.UNIQUE): a
\* ValueError of _add leaves execute
ValidateIndex ==
    /\ pc = "validate"
    /\ LET built == BuildIndex(<<>>, "UNIQUE", data, 1)
       IN  IF built.raised # ""
           THEN /\ raised' = built.raised
                /\ pc' = "validate raised"
                /\ locals' = locals
           ELSE /\ raised' = raised
                /\ pc' = "validate rows"
                /\ locals' = [locals EXCEPT !.index = built.index]
    /\ UNCHANGED <<nodes, orch_completed, dangling_sink_class, dump, root_datasets, datasets,
                   ctx_completed, done, ready, idx, completed, halted, rounds, exc,
                   invalid, runs>>
    /\ UNCHANGED <<port_objects, saved, transform, data, reference, result, errors, counts>>

\* the list `err` that the loop body builds for a record
ValidateErr(index, record) ==
    (IF record.id = None THEN <<"No taxonID">> ELSE <<>>)
    \o (IF record.parent # None /\ record.accepted # None
        THEN <<"has both a parent and accepted name">> ELSE <<>>)
    \o (IF record.parent # None /\ IndexGet(index, record.parent) = None
        THEN <<"has missing parent">> ELSE <<>>)
    \o (IF record.accepted # None /\ IndexGet(index, record.accepted) = None
        THEN <<"has missing accepted">> ELSE <<>>)

\* the body of `for record in data.rows` of DwcTaxonValidate.execute
ValidateRow ==
    /\ pc = "validate rows"
    /\ locals.line <= Len(data)
    /\ LET record == data[locals.line]
           err == ValidateErr(locals.index, record)
       IN  IF Len(err) = 0
           THEN /\ result' = Append(result, record)
                /\ errors' = errors
                /\ counts' = [counts EXCEPT !.accepted = @ + 1, !.processed = @ + 1]
           ELSE /\ errors' = Append(errors, [line |-> record.line, issues |-> err])
                /\ result' = result
                /\ counts' = [counts EXCEPT !.error = @ + 1, !.processed = @ + 1]
    /\ locals' = [locals EXCEPT !.line = @ + 1]
    /\ UNCHANGED ovars
    /\ UNCHANGED <<port_objects, saved, transform, data, reference, raised>>

\* context.save(self.output, result); context.save(self.error, errors)
ValidateSave ==
    /\ pc = "validate rows"
    /\ locals.line > Len(data)
    /\ pc' = "validate saved"
    /\ UNCHANGED <<nodes, orch_completed, dangling_sink_class, dump, root_datasets, datasets,
                   ctx_completed, done, ready, idx, completed, halted, rounds, exc,
                   invalid, runs>>
    /\ UNCHANGED dvars

ValidateNext ==
    \/ ValidateIndex
    \/ ValidateRow
    \/ ValidateSave

ValidateSpec == ValidateInit /\ [][ValidateNext]_vars

\* ---- Selector (orchestrate.py) ----
\* A dataset in a store is represented by the control row whose sub-run
\* produced it, 0 for a dataset that was there before the Selector ran.
\* The contexts: root_datasets is the store of the context handed to
\* Selector.run, datasets the store of the subcontext that Node.run gives
\* Selector.execute, locals.sub_context the store of the sub_context made
\* for the current control row, and locals.run_context the store of the
\* subcontext that Node.run of the selected sub-orchestrator works in.

\* the output ports of the nodes inside the sub-orchestrator with id k
SubPorts(k) == {PortId(NodeId(k) \o "_" \o ToString(j), "output") : j \in 1..MaxPorts}

\* control rows with the selector key of a sub-orchestrator, or of none
SelectorInit ==
    /\ NoOrchestrator
    /\ pc = "selector"
    /\ datasets = <<>>
    /\ root_datasets = [p \in {ExtPort} |-> 0]
    /\ port_objects = <<>>
    /\ saved = <<>>
    /\ transform = [class |-> "Selector", input |-> ExtPort, nodes |-> 1..MaxNodes]
    /\ data \in SeqsUpTo(1..(MaxNodes + 1), MaxData)
    /\ reference = <<>>
    /\ result = <<>>
    /\ errors = <<>>
    /\ counts = [accepted |-> 0, processed |-> 0]
    /\ locals = [line |-> 1, running |-> FALSE, sub_context |-> <<>>, run_context |-> <<>>,
                 finished |-> <<>>]
    /\ raised = ""

\* the loop body of Selector.execute up to the call of execute of the
\* selected node: the node is looked up, ProcessingContext.subcontext makes
\* the sub_context, and Node.run makes a subcontext of it
SelectorRow ==
    /\ pc = "selector"
    /\ ~locals.running
    /\ locals.line <= Len(data)
    /\ IF data[locals.line] \notin transform.nodes
       THEN /\ raised' = "No matching node"
            /\ pc' = "selector raised"
            /\ locals' = locals
            /\ counts' = [counts EXCEPT !.processed = @ + 1]
       ELSE /\ locals' = [locals EXCEPT !.running = TRUE, !.sub_context = <<>>,
                                        !.run_context = <<>>]
            /\ counts' = [counts EXCEPT !.processed = @ + 1]
            /\ UNCHANGED <<raised, pc>>
    /\ UNCHANGED <<nodes, orch_completed, dangling_sink_class, dump, root_datasets, datasets,
                   ctx_completed, done, ready, idx, completed, halted, rounds, exc,
                   invalid, runs>>
    /\ UNCHANGED <<port_objects, saved, transform, data, reference, result, errors>>

\* Orchestrator.execute of the sub-run: a node inside the sub-orchestrator
\* saves its output and commits, which merges it into the run's context
SubNodeCommit(p) ==
    /\ pc = "selector"
    /\ locals.running
    /\ p \in SubPorts(data[locals.line])
    /\ p \notin DOMAIN locals.run_context
    /\ locals' = [locals EXCEPT !.run_context = Merge(@, [q \in {p} |-> locals.line])]
    /\ UNCHANGED <<nodes, orch_completed, dangling_sink_class, dump, root_datasets, datasets,
                   ctx_completed, done, ready, idx, completed, halted, rounds, pc, exc,
                   invalid, runs>>
    /\ UNCHANGED <<port_objects, saved, transform, data, reference, result, errors, counts,
                   raised>>

\* a node inside the sub-orchestrator raises: the sub-run rolls back and
\* the exception leaves Selector.execute
SubRunRaise ==
    /\ pc = "selector"
    /\ locals.running
    /\ raised' = "Exception"
    /\ pc' = "selector raised"
    /\ UNCHANGED <<nodes, orch_completed, dangling_sink_class, dump, root_datasets, datasets,
                   ctx_completed, done, ready, idx, completed, halted, rounds, exc,
                   invalid, runs>>
    /\ UNCHANGED <<port_objects, saved, transform, data, reference, result, errors, counts,
                   locals>>

\* a sub-run that is given the Selector's context: node.run(context)
SubCommit_IntoSelector(selector, sub_context, run_context) ==
    [selector |-> Merge(selector, run_context), sub_context |-> sub_context]

\* Node.commit of the sub-orchestrator: context.parent.merge(context), where
\* the parent of the run's context is the sub_context of the control row
SubCommit(selector, sub_context, run_context) ==
    [selector |-> selector, sub_context |-> Merge(sub_context, run_context)]

\* the sub-run ends: Node.commit, node.run returns, and the loop body of
\* Selector.execute ends
SubRunCommit ==
    /\ pc = "selector"
    /\ locals.running
    /\ LET after == SubCommit(datasets, locals.sub_context, locals.run_context)
       IN  /\ datasets' = after.selector
           /\ locals' = [locals EXCEPT !.running = FALSE,
                                       !.line = @ + 1,
                                       !.sub_context = after.sub_context,
                                       !.finished = Append(@, after.sub_context)]
    /\ counts' = [counts EXCEPT !.accepted = @ + 1]
    /\ UNCHANGED <<nodes, orch_completed, dangling_sink_class, dump, root_datasets,
                   ctx_completed, done, ready, idx, completed, halted, rounds, pc, exc,
                   invalid, runs>>
    /\ UNCHANGED <<port_objects, saved, transform, data, reference, result, errors, raised>>

\* Selector.execute returns and Node.commit of the Selector merges its
\* context into the parent
SelectorCommit ==
    /\ pc = "selector"
    /\ ~locals.running
    /\ locals.line > Len(data)
    /\ root_datasets' = Merge(root_datasets, datasets)
    /\ pc' = "selector committed"
    /\ UNCHANGED <<nodes, orch_completed, dangling_sink_class, dump, datasets,
                   ctx_completed, done, ready, idx, completed, halted, rounds, exc,
                   invalid, runs>>
    /\ UNCHANGED dvars

SelectorNext ==
    \/ SelectorRow
    \/ \E p \in UNION {SubPorts(k) : k \in 1..MaxNodes} : SubNodeCommit(p)
    \/ SubRunRaise
    \/ SubRunCommit
    \/ SelectorCommit

SelectorSpec == SelectorInit /\ [][SelectorNext]_vars

\* ---- LookupTransform (transform.py) ----
\* LookupTransform._remap without a map (map is None): the fields with a
\* value that is not None
Remap(record_data) ==
    [f \in {g \in DOMAIN record_data : record_data[g] # None} |-> record_data[f]]

\* LookupTransform.compose with merge set and no input_map: the data of the
\* composed record, which is the input record itself without a link
LookupCompose(tr, record_data, link_data, matched) ==
    IF ~matched THEN record_data
    ELSE IF tr.overwrite
    THEN Merge(Merge(<<>>, Remap(record_data)), Remap(link_data))
    ELSE Merge(Merge(<<>>, Remap(link_data)), Remap(record_data))

\* input rows with a key and a name, a lookup table with unique ids and a
\* name: `name` is on both sides
LookupInit ==
    /\ NoOrchestrator
    /\ pc = "lookup"
    /\ datasets = <<>>
    /\ root_datasets = <<>>
    /\ port_objects = <<>>
    /\ saved = <<>>
    /\ transform \in {[class |-> "LookupTransform", overwrite |-> o, reject |-> r,
                       merge |-> TRUE] : o \in BOOLEAN, r \in BOOLEAN}
    /\ data \in {[i \in 1..Len(rs) |-> [line |-> i,
                                        data |-> [key |-> rs[i][1], name |-> rs[i][2]]]] :
                    rs \in SeqsUpTo((1..MaxIds) \X (0..MaxIds), MaxData)}
    /\ \E n \in 0..MaxIds : \E names \in [1..n -> 0..MaxIds] :
          reference = [i \in 1..n |-> [line |-> i, data |-> [id |-> i, name |-> names[i]]]]
    /\ result = <<>>
    /\ errors = <<>>
    /\ counts = [accepted |-> 0, unmatched |-> 0, processed |-> 0]
    /\ locals = [line |-> 1]
    /\ raised = ""

\* the body of `for row in data.rows` of LookupTransform.execute, without
\* an unmatched port
LookupRow ==
    /\ pc = "lookup"
    /\ locals.line <= Len(data)
    /\ LET row == data[locals.line]
           link == Find(reference, row.data.key)
           link_data == IF link = None THEN <<>> ELSE reference[link].data
       IN  IF link # None \/ ~transform.reject
           THEN /\ result' = Append(result,
                        [line |-> row.line,
                         data |-> LookupCompose(transform, row.data, link_data, link # None)])
                /\ counts' = [counts EXCEPT !.accepted = @ + 1, !.processed = @ + 1,
                                            !.unmatched = IF link = None THEN @ + 1 ELSE @]
           ELSE /\ result' = result
                /\ counts' = [counts EXCEPT !.unmatched = @ + 1, !.processed = @ + 1]
    /\ locals' = [locals EXCEPT !.line = @ + 1]
    /\ UNCHANGED ovars
    /\ UNCHANGED <<port_objects, saved, transform, data, reference, errors, raised>>

\* context.save(self.output, result); context.save(self.error, errors)
LookupSave ==
    /\ pc = "lookup"
    /\ locals.line > Len(data)
    /\ pc' = "lookup saved"
    /\ UNCHANGED <<nodes, orch_completed, dangling_sink_class, dump, root_datasets, datasets,
                   ctx_completed, done, ready, idx, completed, halted, rounds, exc,
                   invalid, runs>>
    /\ UNCHANGED dvars

LookupNext ==
    \/ LookupRow
    \/ LookupSave

LookupSpec == LookupInit /\ [][LookupNext]_vars

\* ---- ParentLookupTransform (transform.py) ----
\* Input rows with the identifiers 1..n, any parent pointer (None and the
\* identifier n + 1 of no row included) and any lookup key (None and a key
\* that the lookup table does not hold included); the lookup table holds the
\* keys 1..m.  A record_unmatched port is configured.
ParentLookupInit ==
    /\ NoOrchestrator
    /\ pc = "parent lookup"
    /\ datasets = <<>>
    /\ root_datasets = <<>>
    /\ port_objects = <<>>
    /\ saved = <<>>
    /\ transform \in {[class |-> "ParentLookupTransform", reject |-> r] : r \in BOOLEAN}
    /\ \E n \in 0..MaxIds : \E rs \in [1..n -> (0..(MaxLookup + 1)) \X (0..(n + 1))] :
          data = [i \in 1..n |-> [id |-> i, key |-> rs[i][1], parent |-> rs[i][2]]]
    /\ \E m \in 0..MaxLookup : reference = [i \in 1..m |-> [id |-> i]]
    /\ result = <<>>
    /\ errors = <<>>
    /\ counts = [accepted |-> 0, unmatched |-> 0, processed |-> 0, parents |-> 0]
    /\ locals = [line |-> 1, walking |-> FALSE, actual |-> None, link |-> None,
                 visited |-> <<>>, missing |-> <<>>]
    /\ raised = ""

\* the loop body of `for row in data.rows` up to the while loop:
\* actual = row; link = None
ParentLookupStart ==
    /\ pc = "parent lookup"
    /\ ~locals.walking
    /\ locals.line <= Len(data)
    /\ locals' = [locals EXCEPT !.walking = TRUE, !.actual = locals.line, !.link = None,
                                !.visited = <<>>]
    /\ UNCHANGED ovars
    /\ UNCHANGED <<port_objects, saved, transform, data, reference, result, errors, counts,
                   raised>>

\* one pass of `while actual is not None and link is None`; locals.visited
\* lists the records looked up for this row, and the model follows a walk
\* until it has looked up more records than the input holds
ParentLookupHop ==
    /\ pc = "parent lookup"
    /\ locals.walking
    /\ locals.actual # None /\ locals.link = None
    /\ Len(locals.visited) <= Len(data)
    /\ LET link == Find(reference, data[locals.actual].key)
       IN  /\ locals' = [locals EXCEPT
                            !.link = link,
                            !.actual = IF link = None
                                       THEN Find(data, data[locals.actual].parent)
                                       ELSE @,
                            !.visited = Append(@, locals.actual)]
           /\ counts' = [counts EXCEPT !.parents = IF link = None THEN @ + 1 ELSE @]
    /\ UNCHANGED ovars
    /\ UNCHANGED <<port_objects, saved, transform, data, reference, result, errors, raised>>

\* the rest of the loop body, after the while loop has ended
ParentLookupRow ==
    /\ pc = "parent lookup"
    /\ locals.walking
    /\ locals.actual = None \/ locals.link # None
    /\ LET row == data[locals.line]
           unmatched == locals.link = None
           composed == locals.link # None \/ ~transform.reject
       IN  /\ locals' = [locals EXCEPT !.walking = FALSE, !.line = @ + 1,
                                       !.missing = IF unmatched THEN Append(@, row) ELSE @]
           /\ result' = IF composed THEN Append(result, row) ELSE result
           /\ counts' = [counts EXCEPT !.processed = @ + 1,
                                       !.unmatched = IF unmatched THEN @ + 1 ELSE @,
                                       !.accepted = IF composed THEN @ + 1 ELSE @]
    /\ UNCHANGED ovars
    /\ UNCHANGED <<port_objects, saved, transform, data, reference, errors, raised>>

\* the three context.save calls
ParentLookupSave ==
    /\ pc = "parent lookup"
    /\ ~locals.walking
    /\ locals.line > Len(data)
    /\ pc' = "parent lookup saved"
    /\ UNCHANGED <<nodes, orch_completed, dangling_sink_class, dump, root_datasets, datasets,
                   ctx_completed, done, ready, idx, completed, halted, rounds, exc,
                   invalid, runs>>
    /\ UNCHANGED dvars

ParentLookupNext ==
    \/ ParentLookupStart
    \/ ParentLookupHop
    \/ ParentLookupRow
    \/ ParentLookupSave

ParentLookupSpec == ParentLookupInit /\ [][ParentLookupNext]_vars

\* ---- VariantTransform (transform.py) ----
\* A generating function is given by the candidate it returns for each row
\* of the input, None included.  Key values are small integers, which
\* str.strip leaves as they are.
VariantInit ==
    /\ NoOrchestrator
    /\ pc = "variant"
    /\ datasets = <<>>
    /\ root_datasets = <<>>
    /\ port_objects = <<>>
    /\ saved = <<>>
    /\ \E ks \in SeqsUpTo(1..MaxIds, MaxData) :
          /\ data = [i \in 1..Len(ks) |-> [line |-> i, key |-> ks[i]]]
          /\ transform \in {[class |-> "VariantTransform", allow_duplicates |-> a,
                             fail_on_exception |-> f, transforms |-> ts] :
                               a \in BOOLEAN, f \in BOOLEAN,
                               ts \in SeqsUpTo([1..Len(ks) -> 0..MaxIds], MaxTransforms)}
    /\ reference = <<>>
    /\ result = <<>>
    /\ errors = <<>>
    /\ counts = [accepted |-> 0, rejected |-> 0, error |-> 0, processed |-> 0]
    /\ locals = [line |-> 1, started |-> FALSE,
                 seen |-> [given |-> FALSE, values |-> {}], rejected |-> <<>>]
    /\ raised = ""

\* execute up to the loop: rejected and seen exist only with a reject port,
\* which create makes unless allow_duplicates is set
VariantBegin ==
    /\ pc = "variant"
    /\ ~locals.started
    /\ locals' = [locals EXCEPT
                     !.started = TRUE,
                     !.seen = IF transform.allow_duplicates
                              THEN [given |-> FALSE, values |-> {}]
                              ELSE [given |-> TRUE,
                                    values |-> {data[i].key : i \in 1..Len(data)}]]
    /\ UNCHANGED ovars
    /\ UNCHANGED <<port_objects, saved, transform, data, reference, result, errors, counts,
                   raised>>

\* `for transform in self.transforms` from the k-th function on, for one
\* record: st holds seen, result, rejected and the exception raised;
\* seen.add on a seen that is None raises AttributeError, which ends the loop
RECURSIVE Variants(_, _, _, _)
Variants(transforms, record, st, k) ==
    IF k > Len(transforms) THEN st
    ELSE LET variant == transforms[k][record.line]
             var_record == [record EXCEPT !.key = variant]
         IN  IF variant = None THEN Variants(transforms, record, st, k + 1)
             ELSE IF st.seen.given /\ variant \in st.seen.values
             THEN Variants(transforms, record,
                           [st EXCEPT !.rejected = Append(@, var_record)], k + 1)
             ELSE IF ~st.seen.given
             THEN [st EXCEPT !.raised = "AttributeError"]
             ELSE Variants(transforms, record,
                           [st EXCEPT !.seen.values = @ \cup {variant},
                                      !.result = Append(@, var_record)], k + 1)

\* the body of `for record in data.rows` of VariantTransform.execute
VariantRow ==
    /\ pc = "variant"
    /\ locals.started
    /\ locals.line <= Len(data)
    /\ LET record == data[locals.line]
           st == Variants(transform.transforms, record,
                          [seen |-> locals.seen, result |-> result,
                           rejected |-> locals.rejected, raised |-> ""], 1)
       IN  /\ result' = st.result
           /\ IF st.raised # "" /\ transform.fail_on_exception
              THEN /\ raised' = st.raised
                   /\ pc' = "variant raised"
                   /\ errors' = errors
                   /\ locals' = [locals EXCEPT !.seen = st.seen, !.rejected = st.rejected]
              ELSE /\ errors' = IF st.raised # ""
                                THEN Append(errors, [line |-> record.line, issues |-> st.raised])
                                ELSE errors
                   /\ locals' = [locals EXCEPT !.seen = st.seen, !.rejected = st.rejected,
                                               !.line = @ + 1]
                   /\ UNCHANGED <<raised, pc>>
           /\ counts' = [counts EXCEPT
                            !.processed = @ + 1,
                            !.accepted = Len(st.result),
                            !.rejected = Len(st.rejected),
                            !.error = IF st.raised # "" /\ ~transform.fail_on_exception
                                      THEN @ + 1 ELSE @]
    /\ UNCHANGED ovars
    /\ UNCHANGED <<port_objects, saved, transform, data, reference>>

\* the context.save calls
VariantSave ==
    /\ pc = "variant"
    /\ locals.started
    /\ locals.line > Len(data)
    /\ pc' = "variant saved"
    /\ UNCHANGED <<nodes, orch_completed, dangling_sink_class, dump, root_datasets, datasets,
                   ctx_completed, done, ready, idx, completed, halted, rounds, exc,
                   invalid, runs>>
    /\ UNCHANGED dvars

VariantNext ==
    \/ VariantBegin
    \/ VariantRow
    \/ VariantSave

VariantSpec == VariantInit /\ [][VariantNext]_vars

\* ---- what the claims speak about ----
\* the nodes the graph was built from, without the generated sinks
GraphNodes == SelectSeq(nodes, LAMBDA n : ~n.generated)

GraphIds == {n.id : n \in Range(GraphNodes)}

\* the positions in `runs` of the runs of graph nodes
GraphRunsIn(rs) == {k \in 1..Len(rs) : rs[k].id \in GraphIds}

\* ids of the nodes whose run has finished without raising
FinishedIn(rs) == {rs[k].id : k \in {j \in 1..Len(rs) : ~rs[j].raised}}

PortHasRows(port) ==
    \/ port \in DOMAIN datasets /\ datasets[port] > 0
    \/ port \notin DOMAIN datasets /\ port \in DOMAIN root_datasets /\ root_datasets[port] > 0

PortAvailable(port) == port \in DOMAIN datasets \/ port \in DOMAIN root_datasets

Terminated == pc \in {"returned", "raised"}

\* ---- C1 ----
\* A variant of Orchestrator.run: the nodes still to run, weighted by the
\* position in the loop.
Measure ==
    LET left == 3 * (Len(GraphNodes) - Len(done))
    IN  CASE pc = "run" -> left + 7
          [] pc = "while" /\ ~completed -> left + 6
          [] pc = "for" -> left + 5
          [] pc = "while" /\ completed -> left + 4
          [] pc = "dangling" -> 3
          [] pc = "check" -> 2
          [] pc = "commit" -> 1
          [] OTHER -> 0

\* C1: Orchestrator.execute terminates for every finite node graph, the empty
\* one included: every step of the run strictly decreases a natural-number
\* variant, and the while loop makes at most |nodes|+1 rounds.
C1_ExecuteTerminates ==
    [][/\ Measure' < Measure
       /\ Measure' >= 0
       /\ Len(done') <= Len(GraphNodes)
       /\ rounds' <= Len(GraphNodes) + 1]_vars

\* a chain of nodes, one per round, ends after |nodes|+1 rounds
C1_Witness ==
    /\ pc = "returned"
    /\ Len(GraphNodes) >= 2
    /\ rounds = Len(GraphNodes) + 1

\* the empty graph ends after one round
C1_WitnessEmpty == pc = "returned" /\ nodes = <<>> /\ rounds = 1

\* ---- C2 ----
\* C2: whenever Orchestrator.execute returns normally every node of the node
\* list is executable in the final context, and a failure for nodes that
\* could not be completed carries a non-empty list; also after a halt.
C2_ReturnsOnlyWhenAllExecutable ==
    /\ pc \in {"commit", "returned"} =>
          \A n \in Range(nodes) :
              /\ n.predecessors \subseteq ctx_completed
              /\ \A port \in n.inputs : PortAvailable(port)
    /\ (pc = "raised" /\ exc = "Unable to complete nodes") => invalid # <<>>

ErrorHalt ==
    \E n \in Range(GraphNodes) :
        /\ n.no_errors
        /\ n.id \in FinishedIn(runs)
        /\ \E port \in Values(n.errors) : PortHasRows(port)

\* C4: once a no_errors node has finished with a row on an error port, no
\* node of the graph is started any more; only generated sinks are run.
C4_NoGraphNodeAfterErrorHalt ==
    [][ErrorHalt =>
          /\ GraphRunsIn(runs') = GraphRunsIn(runs)
          /\ \A k \in (1..Len(runs')) \ (1..Len(runs)) :
                runs'[k].generated \/ runs'[k].id = OrchestratorId]_vars

\* a halted run that left a graph node unrun and drained a port into a sink
C4_Witness ==
    /\ pc = "returned"
    /\ ErrorHalt
    /\ \E n \in Range(GraphNodes) : n.id \notin FinishedIn(runs)
    /\ \E k \in 1..Len(runs) : runs[k].generated

\* ---- C5 ----
\* a generated sink for the port has been created and run
SinkRunFor(port) ==
    \E n \in Range(nodes) :
        /\ n.generated
        /\ n.inputs = {port}
        /\ \E k \in 1..Len(runs) : runs[k].id = n.id

\* the graph is A -> B, A has no_errors and has finished with one error row,
\* and a dangling-sink factory is configured
HaltThenRecover(A, B) ==
    /\ Len(GraphNodes) = 2
    /\ A.id # B.id
    /\ A.inputs = {} /\ A.predecessors = {} /\ B.predecessors = {}
    /\ B.inputs = Values(A.outputs)
    /\ A.no_errors
    /\ dangling_sink_class
    /\ A.id \in FinishedIn(runs)
    /\ \A port \in Values(A.errors) : port \in DOMAIN datasets /\ datasets[port] = 1

\* C5 as stated: B is never run, and sinks are created and run both for A's
\* output port and for A's error port.
C5_SinksForOutputAndError ==
    \A A \in Range(GraphNodes), B \in Range(GraphNodes) :
        HaltThenRecover(A, B) =>
            /\ B.id \notin {runs[k].id : k \in 1..Len(runs)}
            /\ pc = "returned" =>
                  \A port \in Values(A.outputs) \cup Values(A.errors) : SinkRunFor(port)

\* C5 (amended): B is never run, the run returns, and a sink is created and
\* run for A's error port only; A's output port is B's input and gets none.
C5_SinkForErrorOnly ==
    \A A \in Range(GraphNodes), B \in Range(GraphNodes) :
        HaltThenRecover(A, B) =>
            /\ B.id \notin {runs[k].id : k \in 1..Len(runs)}
            /\ pc # "raised"
            /\ pc = "returned" =>
                  /\ \A port \in Values(A.errors) : SinkRunFor(port)
                  /\ \A port \in Values(A.outputs) : ~SinkRunFor(port)

\* A -> B has halted on A's error row with rows on A's output too
C5_Witness ==
    \E A \in Range(GraphNodes), B \in Range(GraphNodes) :
        /\ HaltThenRecover(A, B)
        /\ pc = "returned"
        /\ \A port \in Values(A.outputs) : PortHasRows(port)

\* ---- C6 ----
\* C6: the halt for a non-empty error port is applied only after all nodes
\* that were ready in the same round have finished.
C6_HaltAfterWholeRound ==
    halted => \A i \in 1..Len(ready) : ready[i].id \in FinishedIn(runs)

\* ---- C7 ----
\* execute_dangling_ports has been called
AfterRecovery ==
    \/ pc \in {"check", "commit", "returned"}
    \/ pc = "raised" /\ exc = "Unable to complete nodes"

GeneratedSinks == SelectSeq(nodes, LAMBDA n : n.generated)

ProducedPorts == UNION {Values(n.outputs) \cup Values(n.errors) : n \in Range(GraphNodes)}

ConsumedPorts == UNION {n.inputs : n \in Range(GraphNodes)}

DeclaredPorts == UNION {Values(n.outputs) \cup Values(n.errors) : n \in Range(orch_completed)}

\* the ports the ancestor context held when the run began: commit adds only
\* ports the graph produces
AncestorPorts == DOMAIN root_datasets \ ProducedPorts

\* C8 as stated: begin raises, and no node runs, iff some input port is
\* neither produced by a node of the graph nor available from an ancestor
\* context.
C8_RaisesIffNotProducedNorAvailable ==
    pc # "run" =>
        /\ exc = "Dangling inputs" <=>
              \E port \in ConsumedPorts : port \notin ProducedPorts /\ port \notin AncestorPorts
        /\ exc = "Dangling inputs" => GraphRunsIn(runs) = {}

\* C8 (amended): begin raises, and no node runs, iff some input port is
\* neither produced by a node of the graph nor by a node of the
\* orchestrator's completed list; what an ancestor context holds is not
\* consulted.
C8_RaisesIffNotProducedNorDeclared ==
    pc # "run" =>
        /\ exc = "Dangling inputs" <=>
              \E port \in ConsumedPorts : port \notin ProducedPorts /\ port \notin DeclaredPorts
        /\ exc = "Dangling inputs" => (pc = "raised" /\ GraphRunsIn(runs) = {})

\* begin raised for a port that the ancestor context holds
C8_Witness ==
    /\ pc = "raised"
    /\ exc = "Dangling inputs"
    /\ \E port \in ConsumedPorts : port \in AncestorPorts

\* a port of the completed list was accepted and its consumer has run
C8_WitnessAccepted ==
    /\ pc = "returned"
    /\ \E n \in Range(GraphNodes) :
          n.id \in FinishedIn(runs) /\ n.inputs \cap DeclaredPorts # {}

\* ---- C9 ----
\* the nodes that produce an input port of the node
Producers(n) ==
    {m \in Range(GraphNodes) : n.inputs \cap (Values(m.outputs) \cup Values(m.errors)) # {}}

RECURSIVE Upstream(_, _)
Upstream(S, k) ==
    IF k = 0 THEN S ELSE Upstream(S \cup UNION {Producers(n) : n \in S}, k - 1)

\* some node needs, through input ports, a dataset that needs its own output
PortCycle ==
    \E n \in Range(GraphNodes) : n \in Upstream(Producers(n), Len(GraphNodes))

\* an input port that no node produces, no completed node declares and no
\* ancestor context holds
DanglingInput ==
    \E port \in ConsumedPorts :
        port \notin ProducedPorts /\ port \notin DeclaredPorts /\ port \notin AncestorPorts

\* C9: with a structural error in the graph (dangling input or dependency
\* cycle) the run fails and no node of the graph is executed.
C9_StructuralErrorBeforeAnyNode ==
    (DanglingInput \/ PortCycle) =>
        /\ GraphRunsIn(runs) = {}
        /\ pc \notin {"commit", "returned"}

\* ---- C10 ----
Count(seq, x) == Cardinality({i \in 1..Len(seq) : seq[i] = x})

\* C10 as stated: every Node.run calls begin, execute and then exactly one of
\* commit (execute returned) or rollback (execute raised, and run re-raises).
C10_BeginExecuteThenCommitOrRollback ==
    \A k \in 1..Len(runs) :
        /\ Len(runs[k].trace) = 3
        /\ runs[k].trace[1] = "begin"
        /\ runs[k].trace[2] = "execute"
        /\ runs[k].trace[3] = IF runs[k].failed = "execute" THEN "rollback" ELSE "commit"
        /\ runs[k].failed = "execute" => runs[k].raised

\* C10 (amended): every Node.run calls begin once; when begin raises nothing
\* else is called; otherwise execute is called once, then commit when execute
\* returned and rollback when execute raised; rollback also follows a commit
\* that raised; every exception is re-raised.
C10_Lifecycle ==
    \A k \in 1..Len(runs) :
        LET r == runs[k]
            rest == SubSeq(r.trace, 3, Len(r.trace))
        IN  /\ r.trace[1] = "begin"
            /\ Count(r.trace, "begin") = 1
            /\ r.raised <=> r.failed # ""
            /\ r.failed = "begin" => r.trace = <<"begin">>
            /\ r.failed # "begin" =>
                  /\ Len(r.trace) >= 3
                  /\ r.trace[2] = "execute"
                  /\ Count(r.trace, "execute") = 1
                  /\ r.failed = "" => rest = <<"commit">>
                  /\ r.failed = "execute" => rest = <<"rollback">>
                  /\ r.failed = "commit" => rest = <<"commit", "rollback">>

\* a node's commit raised after an earlier node had committed
C10_Witness ==
    /\ pc = "raised"
    /\ \E k \in 1..Len(runs) : runs[k].failed = "commit"
    /\ \E k \in 1..Len(runs) : runs[k].failed = "" /\ ~runs[k].generated
    /\ \E k \in 1..Len(runs) : runs[k].failed = "execute" /\ runs[k].id = OrchestratorId

\* ---- C11 ----
\* the ports a node saves datasets for
PortsOf(n) == Values(n.outputs) \cup Values(n.errors)

\* the run at position k is one of a fail_on_exception node in which a row
\* made the transform raise
RowExceptionRun(k) ==
    /\ runs[k].exceptions > 0
    /\ \E n \in Range(GraphNodes) : n.id = runs[k].id /\ n.fail_on_exception

Committed == {n \in Range(GraphNodes) : n.id \in FinishedIn(runs)}

\* C12: what a node saved during execute is in the context that was passed
\* to Node.run exactly when the node committed: the store of the
\* orchestrator's context holds the ports of the committed nodes, and a run
\* whose execute (or commit) raised has added nothing to it.
C12_VisibleExactlyOnCommit ==
    /\ DOMAIN datasets = UNION {PortsOf(n) : n \in Committed}
    /\ \A n \in Committed : \A port \in PortsOf(n) : PortAvailable(port)

\* a node's execute raised after another node had committed its datasets
C12_Witness ==
    /\ pc = "raised"
    /\ \E k \in 1..Len(runs) : runs[k].failed = "execute" /\ runs[k].id \in GraphIds
    /\ Committed # {}
    /\ DOMAIN datasets # {}

\* ---- C13 ----
\* the rows of the last dataset saved for the Port object, 0 - 1 for none
LastSaved(h) ==
    LET ks == {k \in 1..Len(saved) : saved[k].port = h}
    IN  IF ks = {} THEN 0 - 1
        ELSE saved[CHOOSE k \in ks : \A j \in ks : j <= k].rows

\* C13: distinct Port objects are distinct channels: a Port object is
\* available in the context only when a dataset was saved for that object,
\* and acquire returns the dataset last saved for that object, whatever was
\* saved for other Port objects (also of nodes with equal ids).
C13_DistinctPortsDistinctChannels ==
    pc = "context" =>
        \A h \in 1..MaxPorts :
            Available(datasets, root_datasets, port_objects[h]) =>
                /\ LastSaved(h) >= 0
                /\ Acquire(datasets, root_datasets, port_objects[h]) = LastSaved(h)

\* ---- C14 ----
\* C14: a transform does not mutate the records of its input datasets: while
\* and after TrailTransform executes, every record of the dataset acquired
\* for its reference port has the field values it had when it was acquired.
C14_InputRecordsUnchanged ==
    pc \in {"trail", "trail saved"} => reference = locals.acquired

\* ---- C20 ----
\* the records a record of the table points to
PointedTo(table, r) ==
    {Find(table, table[r].parent), Find(table, table[r].accepted)} \ {None}

RECURSIVE ReachableFrom(_, _, _)
ReachableFrom(table, S, k) ==
    IF k = 0 THEN S
    ELSE ReachableFrom(table, S \cup UNION {PointedTo(table, r) : r \in S}, k - 1)

\* the records of the reference table that the rows of the input refer to
StartingSubset == {Find(locals.acquired, data[i]) : i \in 1..Len(data)} \ {None}

\* C20: for a reference table without cycles and no predicate, the output of
\* TrailTransform holds exactly the records of the table reachable from the
\* starting subset through parent and accepted pointers, each once, and the
\* parent of a record comes before the record.
C20_TrailClosure ==
    pc = "trail saved" =>
        /\ Range(result) =
              ReachableFrom(locals.acquired, StartingSubset, Len(locals.acquired))
        /\ \A i \in 1..Len(result) : \A j \in 1..Len(result) :
              result[i] = result[j] => i = j
        /\ \A j \in 1..Len(result) :
              LET parent == Find(locals.acquired, locals.acquired[result[j]].parent)
              IN  parent # None => \E i \in 1..(j - 1) : result[i] = parent

\* the chain 1 <- 2 <- 3 traced from the rows 2 and 3: the shared ancestors
\* come out once
C20_Witness ==
    /\ pc = "trail saved"
    /\ Len(reference) = 3
    /\ locals.acquired[2].parent = 1
    /\ locals.acquired[3].parent = 2
    /\ data = <<2, 3>>
    /\ result = <<1, 2, 3>>

\* ---- C15 ----
\* C15: for single-field and composite Keys k and a record r with all key
\* fields present, k.set(fresh, k.get(r)) completes without error on a fresh
\* record of the same shape, and then k.get(fresh) = k.get(r).
C15_KeyRoundTrip ==
    (pc = "keys done" /\ Len(transform.keys) >= 1) =>
        /\ raised = ""
        /\ KeysGet(transform.keys, result[1]) = KeysGet(transform.keys, data[1])

\* ---- C16 ----
\* the lines of the records of the dataset with the key, in insertion order
LinesWithKey(key) ==
    LET rows == SelectSeq(data, LAMBDA r : r.key = key)
    IN  [i \in 1..Len(rows) |-> rows[i].line]

\* two records of the dataset share the non-null key
SharedKey(key) == key # None /\ Len(LinesWithKey(key)) >= 2

\* C16: for a dataset with two records of the same non-null key, building a
\* UNIQUE index raises; a FIRST index maps the key to the earlier record and
\* drops the later one; find on a MULTI index returns both in insertion order.
C16_DuplicatePolicy ==
    \A key \in 1..MaxIds :
        SharedKey(key) =>
            /\ transform.type = "UNIQUE" =>
                  /\ pc # "index built"
                  /\ (pc = "index raised" /\ \A i \in 1..Len(data) : data[i].key # None)
                        => raised = "Duplicate key"
            /\ (transform.type = "FIRST" /\ pc = "index built") =>
                  IndexGet(locals.index, key) = LinesWithKey(key)[1]
            /\ (transform.type = "MULTI" /\ pc = "index built") =>
                  IndexGet(locals.index, key) = LinesWithKey(key)

\* a FIRST index was built over two records with the same key
C16_Witness ==
    /\ pc = "index built"
    /\ transform.type = "FIRST"
    /\ \E key \in 1..MaxIds : SharedKey(key) /\ IndexGet(locals.index, key) = 1

\* ---- C17 ----
\* The chain of parents of the record in the full table comes back to a
\* record already on it (the record itself included) before it reaches a
\* record without parent or another record of the input.
RECURSIVE CycleAhead(_, _, _)
CycleAhead(cur, visited, start) ==
    LET kv == reference[cur].parent
    IN  IF Find(reference, kv) = None THEN FALSE
        ELSE IF kv \in visited THEN TRUE
        ELSE IF kv \in DataIds \ {start} THEN FALSE
        ELSE CycleAhead(kv, visited \cup {kv}, start)

RunsIntoCycle(id) == CycleAhead(id, {id}, id)

\* C17: parent-chain resolution terminates, and for every input record whose
\* parent chain runs into a cycle of the reference table, a cycle through
\* the record itself included, exactly one error record is emitted, the
\* error counter is incremented and the parent written to the output row is
\* the default root.
C17_CycleGivesErrorAndDefaultRoot ==
    /\ pc = "parent" => Cardinality(locals.trail) <= MaxIds + 2
    /\ \A j \in 1..Len(result) :
          RunsIntoCycle(data[j].id) =>
              /\ Cardinality({k \in 1..Len(errors) : errors[k].id = data[j].id}) = 1
              /\ counts.error >= 1
              /\ result[j].parent = transform.default_kingdom

\* ---- C18 ----
\* C18: after relabeling, every parent or accepted pointer of an output
\* record that is non-null and referred to a record R of the input equals
\* the identifier that R carries in the output, for every identifier
\* function, those with collisions included.
C18_PointersFollowRelabel ==
    pc = "reidentify saved" =>
        \A j \in 1..Len(result) :
            /\ LET R == Find(data, data[j].parent)
               IN  (R # None /\ result[j].parent # None) => result[j].parent = result[R].id
            /\ LET R == Find(data, data[j].accepted)
               IN  (R # None /\ result[j].accepted # None) => result[j].accepted = result[R].id

\* ---- C19 ----
\* C19: after relabeling the identifiers of the output records are pairwise
\* distinct, for every identifier function.
C19_IdentifiersDistinct ==
    pc = "reidentify saved" =>
        \A i \in 1..Len(result) : \A j \in 1..Len(result) :
            result[i].id = result[j].id => i = j

\* ---- C21 ----
\* the reference keys of the records in the output
OutputKeys == {reference[result[i]].id : i \in 1..Len(result)}

\* C21: for every reference table, with or without parent and accepted
\* cycles, every starting subset and every predicate, each record in the
\* output of TrailTransform has a parent pointer that is null or the
\* reference key of a record in the same output, and likewise an accepted
\* pointer.
C21_OutputPointersClosed ==
    pc = "predicate trail saved" =>
        \A i \in 1..Len(result) :
            /\ reference[result[i]].parent \in {None} \cup OutputKeys
            /\ reference[result[i]].accepted \in {None} \cup OutputKeys

\* ---- C27 ----
\* the positions of the output that hold the record with handle r
OutputPositions(r) == {i \in 1..Len(result) : result[i] = r}

\* C27: every record of the starting subset that resolves in the reference
\* table appears in the output of TrailTransform exactly once, for every
\* predicate and every order of the starting rows, a starting record that
\* was visited earlier as a non-required ancestor and failed the predicate
\* included.
C27_StartingRecordsOnce ==
    pc = "predicate trail saved" =>
        \A r \in StartingSubset : Cardinality(OutputPositions(r)) = 1

\* ---- C22 ----
\* the rows of the output that come from the input row with that line
OutputOf(line) == SelectSeq(result, LAMBDA r : r.line = line)

\* the non-empty trimmed parts of a text, in order
TrimmedParts(s, delimiter) ==
    LET pieces == Split(Strip(s), delimiter)
        trimmed == [i \in 1..Len(pieces) |-> Strip(pieces[i])]
    IN  SelectSeq(trimmed, LAMBDA p : p # <<>>)

\* C22: DenormaliseTransform with a delimiter turns an input row whose field
\* splits into k non-empty trimmed parts into exactly k output rows in part
\* order, each a copy of the row with the field replaced by the part and
\* _index equal to 0, 1, ..., k-1; a row whose field is null or blank gives
\* no output row unless include_empty is set, and then the original row
\* once, without _index.
C22_DenormaliseByDelimiter ==
    pc = "denormalise saved" =>
        \A i \in 1..Len(data) :
            LET row == data[i]
                out == OutputOf(row.line)
            IN  IF row.value.isNone \/ Strip(row.value.text) = <<>>
                THEN out = IF transform.include_empty THEN <<row>> ELSE <<>>
                ELSE LET parts == TrimmedParts(row.value.text, transform.delimiter)
                     IN  /\ Len(out) = Len(parts)
                         /\ \A j \in 1..Len(out) :
                               out[j] = [line |-> row.line, value |-> Text(parts[j]),
                                         index |-> <<j - 1>>]

\* the field "a,b" has given two rows
C22_Witness ==
    /\ pc = "denormalise saved"
    /\ Len(data) = 1
    /\ data[1].value = Text(<<"a", ",", "b">>)
    /\ result = <<[line |-> 1, value |-> Text(<<"a">>), index |-> <<0>>],
                  [line |-> 1, value |-> Text(<<"b">>), index |-> <<1>>]>>

\* ---- C23 ----
\* C23: when ClusterTransform.execute with parent and/or accepted keys
\* declared is over, it has saved an output in which every non-null parent
\* and accepted pointer of a declared key is the identifier of an output
\* row, pointers to removed cluster members having been rewritten to the
\* surviving representative, with or without a reject port.
C23_SurvivorsPointToSurvivors ==
    (pc \in {"cluster saved", "cluster raised"}
        /\ (transform.parent_keys \/ transform.accepted_keys)) =>
        /\ pc = "cluster saved"
        /\ \A i \in 1..Len(result) :
              /\ transform.parent_keys =>
                    result[i].parent \in {None} \cup {r.id : r \in Range(result)}
              /\ transform.accepted_keys =>
                    result[i].accepted \in {None} \cup {r.id : r \in Range(result)}

\* ---- C24 ----
\* the violations of a record of the input: missing taxonID, both a parent
\* and an accepted reference, a reference that no record of the input carries
\* as taxonID
Violations(record) ==
    {v \in {"No taxonID"} : record.id = None}
    \cup {v \in {"has both a parent and accepted name"} :
              record.parent # None /\ record.accepted # None}
    \cup {v \in {"has missing parent"} :
              record.parent # None /\ \A i \in 1..Len(data) : data[i].id # record.parent}
    \cup {v \in {"has missing accepted"} :
              record.accepted # None /\ \A i \in 1..Len(data) : data[i].id # record.accepted}

\* C24: when DwcTaxonValidate.execute is over, every input record is in
\* exactly one of the output and the error channel, in the error channel
\* exactly when it has a violation and then with a message that lists all
\* its violations; a record with a violation, a missing taxonID included,
\* does not stop the other records from being validated.
C24_EveryRecordRouted ==
    pc \in {"validate saved", "validate raised"} =>
        /\ pc = "validate saved"
        /\ \A i \in 1..Len(data) :
              LET inOutput == {k \in 1..Len(result) : result[k].line = i}
                  inError == {k \in 1..Len(errors) : errors[k].line = i}
              IN  /\ Cardinality(inOutput) + Cardinality(inError) = 1
                  /\ inError # {} <=> Violations(data[i]) # {}
                  /\ \A k \in inError : Range(errors[k].issues) = Violations(data[i])

\* ---- C25 ----
\* the saves that were accepted for the Port object h, in order
SavesOf(h) == SelectSeq(saved, LAMBDA s : s.port = h)

\* no other Port object of the context carries the id of h
OwnId(h) == \A g \in 1..MaxPorts : port_objects[g] = port_objects[h] => g = h

\* C25: a dataset registered for a Port is never replaced: a second save
\* for the same Port, in the same context or from the subcontext of another
\* node that is merged into the same parent on commit, is a fatal error, and
\* acquire keeps returning the dataset registered first.
C25_FirstDatasetStays ==
    pc = "context" =>
        \A h \in 1..MaxPorts :
            OwnId(h) =>
                /\ Len(SavesOf(h)) <= 1
                /\ Available(datasets, root_datasets, port_objects[h]) =>
                      Acquire(datasets, root_datasets, port_objects[h]) = SavesOf(h)[1].rows

\* ---- C28 ----
\* the control rows whose sub-runs produced the datasets of a store
ProducingRows(store) == {store[p] : p \in DOMAIN store}

\* C28: the datasets produced by the sub-orchestrator run of a control row
\* are never available in the Selector's own context or an ancestor of it,
\* nor to the sub-run of another control row, whose sub_context starts with
\* an empty store: what a sub-run can acquire was produced by itself or was
\* there before the Selector ran.
C28_SelectorIsolation ==
    pc \in {"selector", "selector committed", "selector raised"} =>
        /\ ProducingRows(datasets) \cup ProducingRows(root_datasets) \subseteq {0}
        /\ locals.running =>
              /\ locals.sub_context = <<>>
              /\ ProducingRows(locals.run_context) \subseteq {locals.line}

\* two control rows have had their sub-runs, each with a dataset, and the
\* Selector has committed
C28_Witness ==
    /\ pc = "selector committed"
    /\ Len(locals.finished) = 2
    /\ \A k \in 1..2 : locals.finished[k] # <<>>
    /\ data[1] = data[2]

\* ---- C29 ----
\* the value a record holds for a field: None when the field is absent
FieldOf(record_data, f) == IF f \in DOMAIN record_data THEN record_data[f] ELSE None

\* C29: in the row that LookupTransform composes for a matched input row, a
\* field on both sides has the input row's value when overwrite is false and
\* the lookup row's value when overwrite is true, whatever the two values
\* are, a null value on the side that has precedence included.
C29_PrecedenceOnCollision ==
    pc = "lookup saved" =>
        \A k \in 1..Len(result) :
            LET row == data[result[k].line]
                link == Find(reference, row.data.key)
            IN  link # None =>
                    FieldOf(result[k].data, "name") =
                        IF transform.overwrite THEN reference[link].data.name
                        ELSE row.data.name

\* ---- C26 ----
\* C26: ParentLookupTransform.execute terminates for every input, also when
\* a row misses the lookup and the parent pointers reachable from it form a
\* cycle without a match: the walk of a row never comes back to a record it
\* has already looked up (from where the loop would repeat forever), and at
\* the end every row is in the output or among the unmatched rows, once.
C26_WalkEnds ==
    /\ pc = "parent lookup" =>
          \A i \in 1..Len(locals.visited) : \A j \in 1..Len(locals.visited) :
              locals.visited[i] = locals.visited[j] => i = j
    /\ pc = "parent lookup saved" =>
          \A i \in 1..Len(data) :
              /\ Cardinality({k \in 1..Len(result) : result[k].id = i}) <= 1
              /\ Cardinality({k \in 1..Len(locals.missing) : locals.missing[k].id = i}) <= 1
              /\ \/ \E k \in 1..Len(result) : result[k].id = i
                 \/ \E k \in 1..Len(locals.missing) : locals.missing[k].id = i

\* ---- C30 ----
\* the non-null candidates, in the order of the rows and, for a row, of the
\* generating functions
Candidates ==
    Concat([i \in 1..Len(data) |->
               SelectSeq([k \in 1..Len(transform.transforms) |->
                             [line |-> i, key |-> transform.transforms[k][i]]],
                         LAMBDA c : c.key # None)])

\* the candidate at position i is no original key value of an input row and
\* no earlier candidate
IsNew(i) ==
    /\ \A r \in 1..Len(data) : data[r].key # Candidates[i].key
    /\ \A j \in 1..(i - 1) : Candidates[j].key # Candidates[i].key

\* the elements of a sequence at the positions in S, in order
RECURSIVE Picked(_, _, _)
Picked(seq, S, i) ==
    IF i > Len(seq) THEN <<>>
    ELSE (IF i \in S THEN <<seq[i]>> ELSE <<>>) \o Picked(seq, S, i + 1)

\* C30: VariantTransform emits one new row per non-null candidate of each
\* generating function for each input row.  With duplicate suppression a
\* candidate equal to an original key value or to an earlier accepted
\* candidate goes to the reject port instead of the output; when duplicates
\* are allowed every non-null candidate gives an output row and none gives
\* an error record.
C30_OneRowPerCandidate ==
    pc \in {"variant saved", "variant raised"} =>
        /\ pc = "variant saved"
        /\ errors = <<>>
        /\ IF transform.allow_duplicates
           THEN result = Candidates
           ELSE /\ result = Picked(Candidates, {i \in 1..Len(Candidates) : IsNew(i)}, 1)
                /\ locals.rejected =
                      Picked(Candidates, {i \in 1..Len(Candidates) : ~IsNew(i)}, 1)

====
